---------------------------- MODULE Spec2Model ----------------------------
(***************************************************************************)
(* A model of the archive store + indexing + search pipeline:              *)
(*   - the top-K grouped collector of the indexer (TopNComputer, the       *)
(*     per-segment collector, Results::merge, Results::top, Index::search),*)
(*   - the content-addressed item store (ItemStore),                       *)
(*   - the relational catalog (surt, entry, snapshot, entry_success,       *)
(*     pattern, pattern_entry) and the transactions of its callers,        *)
(*   - the manager's indexing run and its search over index and catalog.   *)
(* Each part has its own specification over the shared variables.          *)
(***************************************************************************)
EXTENDS Integers, Sequences, FiniteSets, TLC

VARIABLES
    \* ---- collector / Index::search
    limit,            \* TopDocs.limit
    offset,           \* TopDocs.offset
    collector_pc,     \* position of the search
    segment_ord,      \* ordinal of the segment being collected
    top_n_computer,   \* TopScoreSegmentCollector.top_n_computer
    seg_all,          \* TopScoreSegmentCollector.all
    ndocs,            \* number of documents collected so far (all segments)
    child_fruits,     \* the per-segment Results handed to merge_fruits
    merged,           \* the Results returned by merge_fruits
    hits,             \* SearchResults.hits
    \* ---- item store
    fs,               \* the file system below ItemStore.base: path -> node
    save_task,        \* the running ItemStore::save calls
    nsaves,           \* number of save calls made
    saved,            \* digest -> bytes of the save that first returned Some
    altered,          \* paths whose bytes were altered behind the store's back
    entries_pc,       \* position of the ItemStore::entries stream
    parallelism,      \* its parallelism argument
    files_iter,       \* what is left of self.files()
    in_flight,        \* the spawned validation tasks not yet completed
    emitted,          \* the items the stream has yielded
    empty_input_decodes, \* whether the zstd decoder takes an empty file for an empty stream
    \* ---- catalog
    db,               \* the committed tables of the catalog
    db_calls,         \* the calls made so far, with the ids they returned
    \* ---- the connection to the catalog
    tx,               \* the working copy of the open transaction, if any
    run,              \* the call that is running on the connection, statement by statement
    nruns,            \* number of such calls started
    success_log,      \* for each entry_success row made by a run: was the blob in the store
    \* ---- ItemStore::save_all
    save_all,         \* the stream: its arguments, its queue, what it has yielded
    \* ---- Manager::index and Manager::search
    index_docs,       \* the documents of the committed index
    search_result,    \* the last manager search: its query, the index hits, what it returned
    \* ---- calls of pure functions (parsers, the downloader's retry loop)
    call,             \* the function called last, with its arguments
    returned,         \* what it returned
    \* ---- indexer Index
    index_state       \* the writer, the committed segments, the reader and surt_ids of an Index

collector_vars == <<limit, offset, collector_pc, segment_ord, top_n_computer,
                    seg_all, ndocs, child_fruits, merged, hits>>

store_vars == <<fs, save_task, nsaves, saved, altered, entries_pc, parallelism,
                files_iter, in_flight, emitted, empty_input_decodes>>

db_vars == <<db, db_calls>>

tx_vars == <<tx, run, nruns, success_log>>

search_vars == <<index_docs, search_result>>

call_vars == <<call, returned>>

vars == <<collector_vars, store_vars, db_vars, tx_vars, save_all, search_vars, call_vars,
          index_state>>

\* What the actions of one part leave alone.
not_collector_vars == <<store_vars, db_vars, tx_vars, save_all, search_vars, call_vars,
                         index_state>>
not_store_vars == <<collector_vars, db_vars, tx_vars, save_all, search_vars, call_vars,
                     index_state>>
not_db_vars == <<collector_vars, store_vars, tx_vars, save_all, search_vars, call_vars,
                  index_state>>
not_tx_vars == <<collector_vars, store_vars, db_calls, save_all, search_vars, call_vars,
                  index_state>>
not_save_all_vars == <<collector_vars, db_vars, tx_vars, search_vars, call_vars, index_state>>
not_call_vars == <<collector_vars, store_vars, db_vars, tx_vars, save_all, search_vars,
                    index_state>>
not_index_vars == <<collector_vars, store_vars, db_vars, tx_vars, save_all, search_vars,
                    call_vars>>
not_search_vars == <<collector_vars, store_vars, db_vars, tx_vars, save_all, call_vars,
                      index_state>>

(***************************************************************************)
(* Bounds of the model.                                                    *)
(***************************************************************************)
NumSegments == 2
MaxDocs == 4
NumSurts == 3
MaxScore == 3
MaxLimit == 2
MaxOffset == 1
MaxPushes == 5
MaxContentLen == 1
MaxByte == 1
MaxSaves == 2
MaxAltered == 1
MaxParallelism == 2
MaxCalls == 3
MaxTimestamp == 2
MaxLength == 2
NumKeys == 2
NumDbDigests == 2
MaxRuns == 2
MaxEntries == 2
NumPatterns == 2
MaxInvalid == 1
MaxItems == 2
MaxCaptures == 2
DigestTailLen == 2
MaxListed == 2
MaxRedirects == 1
NumUrls == 2
MaxDepth == 3
MaxIndexedDocs == 3
MaxPages == 2
MaxConfigs == 2
MaxRows == 2
NumWriters == 2
MaxStray == 2
MaxId == 2
MaxIdRows == 1
MaxSurtLen == 4

SurtIds == 1..NumSurts
Scores == 1..MaxScore

(***************************************************************************)
(* Generic helpers.                                                        *)
(***************************************************************************)
Max(a, b) == IF a >= b THEN a ELSE b

Min(a, b) == IF a <= b THEN a ELSE b

\* All orders in which the elements of a sequence can be laid out.
SeqPerms(s) ==
    LET n == Len(s)
        bij == {p \in [1..n -> 1..n] : \A i, j \in 1..n : i # j => p[i] # p[j]}
    IN {[i \in 1..n |-> s[p[i]]] : p \in bij}

RECURSIVE ConcatAll(_)
ConcatAll(ss) == IF ss = <<>> THEN <<>> ELSE Head(ss) \o ConcatAll(Tail(ss))

(***************************************************************************)
(* ComparableDoc and TopNComputer (collector/top_computer.rs).             *)
(***************************************************************************)
\* The REVERSE_ORDER parameter the collector instantiates TopNComputer and
\* ComparableDoc with.
REVERSE_ORDER == FALSE

\* ComparableDoc::cmp(a, b) == Less
ComparableDocLess(a, b) ==
    IF a.feature # b.feature
    THEN IF REVERSE_ORDER THEN a.feature > b.feature ELSE a.feature < b.feature
    ELSE a.doc < b.doc

\* sort_unstable on a buffer of ComparableDoc (elements equal under cmp are
\* identical, so the result is unique).
SortComparable(s) ==
    LET Insert(sorted, x) ==
            LET k == Cardinality({j \in 1..Len(sorted) : ~ComparableDocLess(x, sorted[j])})
            IN SubSeq(sorted, 1, k) \o <<x>> \o SubSeq(sorted, k + 1, Len(sorted))
        ins[i \in 0..Len(s)] == IF i = 0 THEN <<>> ELSE Insert(ins[i - 1], s[i])
    IN ins[Len(s)]

None == <<>>
Some(x) == <<x>>

\* TopNComputer::new
TopNComputerNew(top_n) ==
    [buffer |-> <<>>, top_n |-> top_n, capacity |-> Max(top_n, 1) * 2, threshold |-> None]

\* Mutant of truncate_top_n: the buffer is not truncated.
TruncateTopNKeepsAll(c) ==
    LET sorted == SortComparable(c.buffer)
        median == sorted[c.top_n + 1].feature
    IN {[computer |-> [c EXCEPT !.buffer = b], median |-> median] : b \in SeqPerms(sorted)}

\* TopNComputer::truncate_top_n: select_nth_unstable(top_n) leaves the top_n
\* least elements in front in an unspecified order; the outcomes are the
\* pairs of a truncated computer and the median score.
TruncateTopN(c) ==
    LET sorted == SortComparable(c.buffer)
        median == sorted[c.top_n + 1].feature
    IN {[computer |-> [c EXCEPT !.buffer = b], median |-> median] :
            b \in SeqPerms(SubSeq(sorted, 1, c.top_n))}

BelowThreshold(c, feature) == c.threshold # None /\ feature < c.threshold[1]

\* TopNComputer::push: the set of computers it can leave.
Push(c, feature, doc) ==
    IF BelowThreshold(c, feature) THEN {c}
    ELSE LET truncated == IF Len(c.buffer) = c.capacity
                          THEN {[t.computer EXCEPT !.threshold = Some(t.median)] :
                                    t \in TruncateTopN(c)}
                          ELSE {c}
         IN {[t EXCEPT !.buffer = Append(@, [feature |-> feature, doc |-> doc])] :
                t \in truncated}

\* Mutant of push_or_update: the buffer is not searched for the doc.
PushOrUpdateNoSearch(c, feature, doc) == Push(c, feature, doc)

\* TopNComputer::push_or_update: the set of computers it can leave.
PushOrUpdate(c, feature, doc) ==
    IF BelowThreshold(c, feature) THEN {c}
    ELSE LET found == {i \in 1..Len(c.buffer) : c.buffer[i].doc = doc}
         IN IF found # {}
            THEN LET i == CHOOSE k \in found : \A j \in found : k <= j
                 IN IF feature > c.buffer[i].feature
                    THEN {[c EXCEPT !.buffer[i].feature = feature]}
                    ELSE {c}
            ELSE LET truncated == IF Len(c.buffer) = c.capacity
                                  THEN {[t.computer EXCEPT !.threshold = Some(t.median)] :
                                            t \in TruncateTopN(c)}
                                  ELSE {c}
                 IN UNION {Push(t, feature, doc) : t \in truncated}

\* TopNComputer::into_vec: the vectors it can return.
IntoVec(c) ==
    IF Len(c.buffer) > c.top_n
    THEN {t.computer.buffer : t \in TruncateTopN(c)}
    ELSE {c.buffer}

\* TopNComputer::into_sorted_vec
IntoSortedVec(c) ==
    IF Len(c.buffer) > c.top_n
    THEN SortComparable(SubSeq(SortComparable(c.buffer), 1, c.top_n))
    ELSE SortComparable(c.buffer)

(***************************************************************************)
(* Results (collector/mod.rs).                                             *)
(***************************************************************************)
EmptyMap == <<>>

\* HashMap entry(k).or_default().push(x)
MapPush(m, k, x) ==
    IF k \in DOMAIN m THEN [m EXCEPT ![k] = Append(@, x)] ELSE m @@ (k :> <<x>>)

\* Number of values held by a map of vectors.
MapSize(m) == Cardinality(UNION {{<<k, i>> : i \in 1..Len(m[k])} : k \in DOMAIN m})

\* The `all` loop of Results::merge over one fruit.
MapExtend(m, other) ==
    [k \in (DOMAIN m) \cup (DOMAIN other) |->
        (IF k \in DOMAIN m THEN m[k] ELSE <<>>) \o
        (IF k \in DOMAIN other THEN other[k] ELSE <<>>)]

RECURSIVE PushOrUpdateAll(_, _)
PushOrUpdateAll(computers, top_n) ==
    IF top_n = <<>> THEN computers
    ELSE PushOrUpdateAll(
            UNION {PushOrUpdate(c, Head(top_n).feature, Head(top_n).doc) : c \in computers},
            Tail(top_n))

RECURSIVE ExtendAll(_, _)
ExtendAll(m, fruits) ==
    IF fruits = <<>> THEN m ELSE ExtendAll(MapExtend(m, Head(fruits).all), Tail(fruits))

\* Mutant of ResultsMerge: the top_n lists of the fruits are joined as they
\* are, without push_or_update.
ResultsMergeJoined(all_results, count) ==
    LET tops == ConcatAll([i \in 1..Len(all_results) |-> all_results[i].top_n])
        result_all == ExtendAll(EmptyMap, all_results)
    IN {[top_n |-> SortComparable(tops), all |-> result_all]}

\* Results::merge: the set of Results it can return.
ResultsMerge(all_results, count) ==
    LET tops == ConcatAll([i \in 1..Len(all_results) |-> all_results[i].top_n])
        result_all == ExtendAll(EmptyMap, all_results)
    IN {[top_n |-> IntoSortedVec(c), all |-> result_all] :
            c \in PushOrUpdateAll({TopNComputerNew(count)}, tops)}

\* DocAddress ordering: by segment_ord, then doc_id.
DocAddressLess(d1, d2) ==
    d1.segment_ord < d2.segment_ord
        \/ (d1.segment_ord = d2.segment_ord /\ d1.doc_id < d2.doc_id)

\* The sort_by of Results::top: Reverse(s1).partial_cmp(Reverse(s2)) is Some
\* for every pair of scores that are numbers, so the document address never
\* decides; sort_by is stable.
SortSnapshots(s) ==
    LET Insert(sorted, x) ==
            LET k == Cardinality({j \in 1..Len(sorted) : sorted[j].score >= x.score})
            IN SubSeq(sorted, 1, k) \o <<x>> \o SubSeq(sorted, k + 1, Len(sorted))
        ins[i \in 0..Len(s)] == IF i = 0 THEN <<>> ELSE Insert(ins[i - 1], s[i])
    IN ins[Len(s)]

\* Results::top panics when all.remove(&doc) finds nothing: the doc is no key
\* of `all`, or an earlier element of top_n has removed it.
TopPanics(r) ==
    \E i \in 1..Len(r.top_n) :
        \/ r.top_n[i].doc \notin DOMAIN r.all
        \/ \E j \in 1..(i - 1) : r.top_n[j].doc = r.top_n[i].doc

\* Results::top
ResultsTop(r) ==
    [i \in 1..Len(r.top_n) |->
        [feature |-> r.top_n[i].feature,
         doc |-> r.top_n[i].doc,
         snapshots |-> SortSnapshots(r.all[r.top_n[i].doc])]]

(***************************************************************************)
(* The search: TopDocs, TopScoreSegmentCollector, Index::search.           *)
(***************************************************************************)
NoComputer == TopNComputerNew(0)

InitCollector ==
    /\ limit \in 0..MaxLimit
    /\ offset \in 0..MaxOffset
    /\ collector_pc = "new"
    /\ segment_ord = 0
    /\ top_n_computer = NoComputer
    /\ seg_all = EmptyMap
    /\ ndocs = 0
    /\ child_fruits = <<>>
    /\ merged = [top_n |-> <<>>, all |-> EmptyMap]
    /\ hits = <<>>

\* TopDocs::new
TopDocsNew ==
    /\ collector_pc = "new"
    /\ collector_pc' = IF limit >= 1 THEN "for_segment" ELSE "panicked"
    /\ UNCHANGED not_collector_vars
    /\ UNCHANGED <<limit, offset, segment_ord, top_n_computer, seg_all, ndocs,
                   child_fruits, merged, hits>>

\* TopDocs::for_segment
ForSegment ==
    /\ collector_pc = "for_segment"
    /\ top_n_computer' = TopNComputerNew(limit + offset)
    /\ seg_all' = EmptyMap
    /\ collector_pc' = "collect"
    /\ UNCHANGED not_collector_vars
    /\ UNCHANGED <<limit, offset, segment_ord, ndocs, child_fruits, merged, hits>>

\* TopScoreSegmentCollector::collect, for the next document of the segment;
\* surt_id is what surt_map holds for its address.
Collect(surt_id, score) ==
    /\ collector_pc = "collect"
    /\ ndocs < MaxDocs
    /\ LET doc_id == MapSize(seg_all)
           doc_address == [segment_ord |-> segment_ord, doc_id |-> doc_id]
       IN /\ top_n_computer' \in Push(top_n_computer, score, surt_id)
          /\ seg_all' = MapPush(seg_all, surt_id, [score |-> score, address |-> doc_address])
    /\ ndocs' = ndocs + 1
    /\ UNCHANGED not_collector_vars
    /\ UNCHANGED <<limit, offset, collector_pc, segment_ord, child_fruits, merged, hits>>

\* TopScoreSegmentCollector::harvest; the searcher then moves to the next
\* segment or, after the last one, to merge_fruits.
Harvest ==
    /\ collector_pc = "collect"
    /\ \E top_n \in IntoVec(top_n_computer) :
          child_fruits' = Append(child_fruits, [top_n |-> top_n, all |-> seg_all])
    /\ segment_ord' = segment_ord + 1
    /\ collector_pc' = IF segment_ord + 1 < NumSegments THEN "for_segment" ELSE "merge"
    /\ top_n_computer' = NoComputer
    /\ seg_all' = EmptyMap
    /\ UNCHANGED not_collector_vars
    /\ UNCHANGED <<limit, offset, ndocs, merged, hits>>

\* TopDocs::merge_fruits.  The fruits arrive in the order the searcher's
\* executor hands them over, which this code does not fix.
MergeFruits ==
    /\ collector_pc = "merge"
    /\ IF limit = 0
       THEN merged' = [top_n |-> <<>>, all |-> EmptyMap]
       ELSE \E fruits \in SeqPerms(child_fruits) :
                merged' \in ResultsMerge(fruits, limit + offset)
    /\ collector_pc' = "top"
    /\ UNCHANGED not_collector_vars
    /\ UNCHANGED <<limit, offset, segment_ord, top_n_computer, seg_all, ndocs,
                   child_fruits, hits>>

\* Index::search after searcher.search: results.top() mapped to the hits.
SearchTop ==
    /\ collector_pc = "top"
    /\ IF TopPanics(merged)
       THEN /\ collector_pc' = "panicked"
            /\ hits' = hits
       ELSE /\ collector_pc' = "done"
            /\ hits' = [i \in 1..Len(merged.top_n) |->
                            [surt_id |-> ResultsTop(merged)[i].doc,
                             docs |-> ResultsTop(merged)[i].snapshots]]
    /\ UNCHANGED not_collector_vars
    /\ UNCHANGED <<limit, offset, segment_ord, top_n_computer, seg_all, ndocs,
                   child_fruits, merged>>

NextCollector ==
    \/ TopDocsNew
    \/ ForSegment
    \/ \E surt_id \in SurtIds, score \in Scores : Collect(surt_id, score)
    \/ Harvest
    \/ MergeFruits
    \/ SearchTop

\* A TopNComputer on its own, as Results::merge uses it: created empty, then
\* fed by push_or_update.
InitTopN ==
    /\ limit \in 1..MaxLimit
    /\ offset \in 0..MaxOffset
    /\ collector_pc = "top_n"
    /\ segment_ord = 0
    /\ top_n_computer = TopNComputerNew(limit + offset)
    /\ seg_all = EmptyMap
    /\ ndocs = 0
    /\ child_fruits = <<>>
    /\ merged = [top_n |-> <<>>, all |-> EmptyMap]
    /\ hits = <<>>

\* One call of TopNComputer::push_or_update
PushOrUpdateCall(feature, doc) ==
    /\ collector_pc = "top_n"
    /\ ndocs < MaxPushes
    /\ top_n_computer' \in PushOrUpdate(top_n_computer, feature, doc)
    /\ ndocs' = ndocs + 1
    /\ UNCHANGED not_collector_vars
    /\ UNCHANGED <<limit, offset, collector_pc, segment_ord, seg_all, child_fruits,
                   merged, hits>>

NextTopN == \E feature \in Scores, doc \in SurtIds : PushOrUpdateCall(feature, doc)


(***************************************************************************)
(* Collector claims.                                                       *)
(***************************************************************************)
\* Every document that matched, with its score: the segment collectors record
\* each collected document in `all`.
MatchedAll == ExtendAll(EmptyMap, child_fruits)

MatchedSurts == DOMAIN MatchedAll

BestScore(surt_id) ==
    LET scores == {MatchedAll[surt_id][i].score : i \in 1..Len(MatchedAll[surt_id])}
    IN CHOOSE s \in scores : \A t \in scores : t <= s

\* surt a ranks before surt b: higher best score, ties by ascending SURT id.
RanksBefore(a, b) ==
    BestScore(a) > BestScore(b) \/ (BestScore(a) = BestScore(b) /\ a < b)

\* Rank (1-based) of a matched SURT.
RankOf(a) == 1 + Cardinality({b \in MatchedSurts : RanksBefore(b, a)})

\* The matched SURTs in rank order.
Ranking ==
    [r \in 1..Cardinality(MatchedSurts) |-> CHOOSE a \in MatchedSurts : RankOf(a) = r]

HitSurts == [i \in 1..Len(hits) |-> hits[i].surt_id]

\* C1: when the search is done, the collector has returned each SURT once and
\* the returned SURTs are exactly the K = limit + offset best-ranked matched
\* SURTs (all of them when fewer than K matched), rank being by per-SURT
\* maximum score with ties broken by ascending SURT id.
C1_TopKByBestScore ==
    collector_pc = "done" =>
        /\ \A i, j \in 1..Len(hits) : i # j => hits[i].surt_id # hits[j].surt_id
        /\ {hits[i].surt_id : i \in 1..Len(hits)} =
              {a \in MatchedSurts : RankOf(a) <= limit + offset}

\* C2: when the search is done, at most `limit` SURTs are returned, and they
\* are the SURTs ranked offset+1 .. offset+limit by best score, in rank order.
C2_OffsetDiscarded ==
    collector_pc = "done" =>
        /\ Len(hits) <= limit
        /\ HitSurts = SubSeq(Ranking, offset + 1,
                             Min(offset + limit, Cardinality(MatchedSurts)))


\* C12: in the output of Results::top, the snapshot list of every SURT is in
\* descending score order, and snapshots with equal scores are in ascending
\* document address order, in whatever order the segments' results were merged.
C12_SnapshotsSorted ==
    collector_pc = "done" =>
        \A i \in 1..Len(hits) :
            \A a, b \in 1..Len(hits[i].docs) :
                a < b =>
                    \/ hits[i].docs[a].score > hits[i].docs[b].score
                    \/ /\ hits[i].docs[a].score = hits[i].docs[b].score
                       /\ DocAddressLess(hits[i].docs[a].address, hits[i].docs[b].address)

\* C13: after any sequence of push_or_update calls on a TopNComputer that
\* started empty, no two entries of the buffer have the same doc.
C13_NoDuplicateDoc ==
    collector_pc = "top_n" =>
        \A i, j \in 1..Len(top_n_computer.buffer) :
            i # j => top_n_computer.buffer[i].doc # top_n_computer.buffer[j].doc

\* C13 witness: the buffer was truncated (the threshold is set) and holds
\* two entries again, after more calls than it has entries.
C13_Witness ==
    /\ collector_pc = "top_n"
    /\ top_n_computer.threshold # None
    /\ Len(top_n_computer.buffer) >= 2
    /\ ndocs > Len(top_n_computer.buffer) + 1

\* C38: Results::top does not fail on the result of Results::merge: every
\* SURT id of the merged top_n occurs in it once and is a key of the merged
\* `all` map, whatever the segment collectors produced, a segment top_n that
\* lists one SURT several times included.
C38_TopOfMergedNeverFails ==
    /\ (collector_pc = "panicked" => limit = 0)
    /\ (collector_pc \in {"top", "done"} /\ limit >= 1 =>
          /\ \A i \in 1..Len(merged.top_n) : merged.top_n[i].doc \in DOMAIN merged.all
          /\ \A i, j \in 1..Len(merged.top_n) :
                i # j => merged.top_n[i].doc # merged.top_n[j].doc)

\* C38 witness: a segment's top_n lists one SURT twice, another segment has
\* a document of that SURT too, and Results::top has returned.
C38_Witness ==
    /\ collector_pc = "done" /\ Len(hits) >= 1
    /\ \E f \in 1..Len(child_fruits) :
          \E i, j \in 1..Len(child_fruits[f].top_n) :
              /\ i # j
              /\ child_fruits[f].top_n[i].doc = child_fruits[f].top_n[j].doc
              /\ \E g \in 1..Len(child_fruits) :
                    /\ g # f
                    /\ \E k \in 1..Len(child_fruits[g].top_n) :
                          child_fruits[g].top_n[k].doc = child_fruits[f].top_n[i].doc

\* C14: a search with limit = 0 does not abort.
C14_LimitZeroCompletes == limit = 0 => collector_pc # "panicked"

\* C15: for every returned SURT, the snapshot list holds every matched
\* document of that SURT, of all segments, once each with its score, and the
\* score reported for the SURT is the maximum score of the list.
C15_AllSnapshotsAndBestScore ==
    collector_pc = "done" =>
        \A i \in 1..Len(hits) :
            LET docs == hits[i].docs
                matched == MatchedAll[hits[i].surt_id]
            IN /\ Len(docs) = Len(matched)
               /\ {docs[k] : k \in 1..Len(docs)} = {matched[k] : k \in 1..Len(matched)}
               /\ ResultsTop(merged)[i].feature = BestScore(hits[i].surt_id)


(***************************************************************************)
(* The item store (store/src/items).  Strings are sequences of characters, *)
(* a path is the sequence of its component names below ItemStore.base.     *)
(***************************************************************************)
\* The characters that occur, in ASCII order.
Alphabet ==
    <<".", "1", "2", "3", "4", "5", "6", "7",
      "A", "B", "C", "D", "E", "F", "G", "H", "I", "J", "K", "L", "M",
      "N", "O", "P", "Q", "R", "S", "T", "U", "V", "W", "X", "Y", "Z",
      "a", "s", "t", "z">>

\* The Base32 alphabet, by value (data_encoding::BASE32).
Base32Alphabet ==
    <<"A", "B", "C", "D", "E", "F", "G", "H", "I", "J", "K", "L", "M",
      "N", "O", "P", "Q", "R", "S", "T", "U", "V", "W", "X", "Y", "Z",
      "2", "3", "4", "5", "6", "7">>

\* is_valid_char
is_valid_char(c) ==
    c \in {"2", "3", "4", "5", "6", "7"} \cup
          {"A", "B", "C", "D", "E", "F", "G", "H", "I", "J", "K", "L", "M",
           "N", "O", "P", "Q", "R", "S", "T", "U", "V", "W", "X", "Y", "Z"}

\* Length of a digest string and of a store file name.
DigestLen == 32
FileNameLen == 36
DirNameLen == 2

ZstExt == <<".", "z", "s", "t">>

\* Mutant of is_valid_digest: the characters are not checked.
is_valid_digest_length_only(candidate) == Len(candidate) = DigestLen

\* ItemStore::is_valid_digest
is_valid_digest(candidate) ==
    Len(candidate) = DigestLen /\ \A i \in 1..Len(candidate) : is_valid_char(candidate[i])

\* Mutant of location: every digest is stored in the same file.
location_one_file(digest) ==
    IF is_valid_digest(digest)
    THEN Some(<<<<"A", "A">>, <<"A", "A">>, [i \in 1..DigestLen |-> "A"] \o ZstExt>>)
    ELSE None

\* ItemStore::location
location(digest) ==
    IF is_valid_digest(digest)
    THEN Some(<<SubSeq(digest, 1, 2), SubSeq(digest, 3, 4), digest \o ZstExt>>)
    ELSE None

Bytes == 0..MaxByte

\* The byte sequences a reader can deliver.
Contents == UNION {[1..n -> Bytes] : n \in 0..MaxContentLen}

\* SHA-1 followed by Base32: a 32-character digest that differs for different
\* contents (a collision-free stand-in on the bounded contents).
ContentCode(content) ==
    LET pow[i \in 0..Len(content)] == IF i = 0 THEN 1 ELSE (MaxByte + 2) * pow[i - 1]
        sum[i \in 0..Len(content)] ==
            IF i = 0 THEN 0 ELSE sum[i - 1] + (content[i] + 1) * pow[i - 1]
    IN sum[Len(content)]

compute_digest(content) ==
    [i \in 1..DigestLen |->
        Base32Alphabet[(((ContentCode(content) + 1) * (2 * i + 1)) % 32) + 1]]

\* A zstd frame: the magic number, the data, the end of the last block.
ZstdMagic == 253
ZstdEnd == 254

\* zstd::stream::write::Encoder over the whole input, finished.
ZstdEncode(content) == <<ZstdMagic>> \o content \o <<ZstdEnd>>

\* zstd::Decoder read to the end: a complete frame gives its data, anything
\* else is an I/O error (None).  What the decoder makes of an input of no
\* bytes is the library's choice: an empty stream or an I/O error.
ZstdDecode(bytes) ==
    IF bytes = <<>> THEN (IF empty_input_decodes THEN Some(<<>>) ELSE None)
    ELSE IF /\ Len(bytes) >= 2
            /\ bytes[1] = ZstdMagic
            /\ bytes[Len(bytes)] = ZstdEnd
            /\ \A i \in 2..(Len(bytes) - 1) : bytes[i] \in Bytes
         THEN Some(SubSeq(bytes, 2, Len(bytes) - 1))
         ELSE None

DirNode == [kind |-> "dir", bytes |-> <<>>]
FileNode(bytes) == [kind |-> "file", bytes |-> bytes]

Root == <<>>

\* Mutant of exists: save never finds the path.
exists_never(path) == FALSE

\* Path::exists, is_file, is_dir
exists(path) == path \in DOMAIN fs
is_file(path) == path \in DOMAIN fs /\ fs[path].kind = "file"
is_dir(path) == path \in DOMAIN fs /\ fs[path].kind = "dir"

\* ItemStore::contains
contains(digest) == location(digest) # None /\ is_file(location(digest)[1])

Prefixes(path) == {SubSeq(path, 1, n) : n \in 0..Len(path)}

Parent(path) == SubSeq(path, 1, Len(path) - 1)

\* std::fs::create_dir_all fails when a component of the path is a file.
CreateDirAllFails(path) == \E q \in Prefixes(path) : is_file(q)

\* std::fs::create_dir_all: the file system it leaves.
CreateDirAll(path) ==
    LET missing == {q \in Prefixes(path) :
                        /\ q \notin DOMAIN fs
                        /\ \A r \in Prefixes(q) : ~is_file(r)}
    IN fs @@ [q \in missing |-> DirNode]

\* A write of `chunk` at offset `pos` of a file.
WriteAt(bytes, pos, chunk) ==
    LET n == Max(Len(bytes), pos + Len(chunk))
    IN [i \in 1..n |->
            IF i > pos /\ i <= pos + Len(chunk) THEN chunk[i - pos]
            ELSE IF i <= Len(bytes) THEN bytes[i] ELSE 0]

Result(kind, n) == [kind |-> kind, n |-> n]

NoFail == MaxContentLen + 1

IdleTask ==
    [pc |-> "idle", digest |-> <<>>, path |-> <<>>, reader |-> <<>>, fail_at |-> NoFail,
     read |-> 0, pos |-> 0, prior |-> FALSE, result |-> Result("-", 0)]

SaveTasks == DOMAIN save_task

StoreQuiet ==
    /\ \A t \in SaveTasks : save_task[t].pc = "idle"
    /\ entries_pc = "idle"

\* ItemStore::save up to `if path.exists()`.  The reader delivers `reader`, or
\* fails with an I/O error after fail_at bytes.
SaveStart(t, digest, reader, fail_at) ==
    /\ save_task[t].pc = "idle"
    /\ entries_pc = "idle"
    /\ nsaves < MaxSaves
    /\ nsaves' = nsaves + 1
    /\ LET loc == location(digest)
           task == [IdleTask EXCEPT !.digest = digest,
                                    !.prior = (digest \in DOMAIN saved)]
       IN save_task' = [save_task EXCEPT ![t] =
              IF loc = None
              THEN [task EXCEPT !.pc = "returned", !.result = Result("InvalidDigest", 0)]
              ELSE IF exists(loc[1])
                   THEN [task EXCEPT !.pc = "returned", !.path = loc[1],
                                     !.result = Result("None", 0)]
                   ELSE \* the reader is used from here on
                        [task EXCEPT !.pc = "create_dir_all", !.path = loc[1],
                                     !.reader = reader, !.fail_at = fail_at]]
    /\ UNCHANGED <<not_store_vars, empty_input_decodes>>
    /\ UNCHANGED <<fs, saved, altered, entries_pc, parallelism, files_iter, in_flight,
                   emitted>>

\* std::fs::create_dir_all(parent)
SaveCreateDirAll(t) ==
    /\ save_task[t].pc = "create_dir_all"
    /\ LET parent == Parent(save_task[t].path)
       IN IF CreateDirAllFails(parent)
          THEN /\ fs' = CreateDirAll(parent)
               /\ save_task' = [save_task EXCEPT ![t].pc = "returned",
                                                 ![t].result = Result("Io", 0)]
          ELSE /\ fs' = CreateDirAll(parent)
               /\ save_task' = [save_task EXCEPT ![t].pc = "file_create"]
    /\ UNCHANGED <<not_store_vars, empty_input_decodes>>
    /\ UNCHANGED <<nsaves, saved, altered, entries_pc, parallelism, files_iter, in_flight,
                   emitted>>

\* File::create(path) and Encoder::new: the file is created empty, or
\* truncated when it exists.
SaveFileCreate(t) ==
    /\ save_task[t].pc = "file_create"
    /\ LET path == save_task[t].path
       IN IF is_dir(path) \/ ~is_dir(Parent(path))
          THEN /\ fs' = fs
               /\ save_task' = [save_task EXCEPT ![t].pc = "returned",
                                                 ![t].result = Result("Io", 0)]
          ELSE /\ fs' = [q \in DOMAIN fs \cup {path} |->
                            IF q = path THEN FileNode(<<>>) ELSE fs[q]]
               /\ save_task' = [save_task EXCEPT ![t].pc = "copy", ![t].pos = 0,
                                                 ![t].read = 0]
    /\ UNCHANGED <<not_store_vars, empty_input_decodes>>
    /\ UNCHANGED <<nsaves, saved, altered, entries_pc, parallelism, files_iter, in_flight,
                   emitted>>

\* What the encoder writes for the next piece of data: the frame header goes
\* out with the first write.
Framed(task, data) == IF task.pos = 0 THEN <<ZstdMagic>> \o data ELSE data

\* One round of std::io::copy: read from the reader, write to the encoder.
SaveCopy(t) ==
    /\ save_task[t].pc = "copy"
    /\ LET task == save_task[t]
       IN IF task.read = task.fail_at
          THEN \* the reader returns an error: ImportIo, the file stays as it is
               /\ fs' = fs
               /\ save_task' = [save_task EXCEPT ![t].pc = "returned",
                                                 ![t].result = Result("ImportIo", 0)]
          ELSE IF task.read = Len(task.reader)
               THEN /\ fs' = fs
                    /\ save_task' = [save_task EXCEPT ![t].pc = "finish"]
               ELSE LET chunk == Framed(task, <<task.reader[task.read + 1]>>)
                    IN /\ fs' = [fs EXCEPT ![task.path] =
                                    FileNode(WriteAt(@.bytes, task.pos, chunk))]
                       /\ save_task' = [save_task EXCEPT ![t].read = @ + 1,
                                                         ![t].pos = @ + Len(chunk)]
    /\ UNCHANGED <<not_store_vars, empty_input_decodes>>
    /\ UNCHANGED <<nsaves, saved, altered, entries_pc, parallelism, files_iter, in_flight,
                   emitted>>

\* writer.finish() and the return of Some(written)
SaveFinish(t) ==
    /\ save_task[t].pc = "finish"
    /\ LET task == save_task[t]
           chunk == Framed(task, <<ZstdEnd>>)
       IN /\ fs' = [fs EXCEPT ![task.path] = FileNode(WriteAt(@.bytes, task.pos, chunk))]
          /\ save_task' = [save_task EXCEPT ![t].pc = "returned",
                                            ![t].pos = @ + Len(chunk),
                                            ![t].result = Result("Some", task.read)]
          /\ saved' = IF task.digest \in DOMAIN saved THEN saved
                      ELSE saved @@ (task.digest :> task.reader)
    /\ UNCHANGED <<not_store_vars, empty_input_decodes>>
    /\ UNCHANGED <<nsaves, altered, entries_pc, parallelism, files_iter, in_flight,
                   emitted>>

\* The caller of save is gone before save returns (the thread or the process
\* ends): nothing is undone.
SaveAbandon(t) ==
    /\ save_task[t].pc \in {"create_dir_all", "file_create", "copy", "finish"}
    /\ save_task' = [save_task EXCEPT ![t].pc = "returned",
                                      ![t].result = Result("Abandoned", 0)]
    /\ UNCHANGED <<not_store_vars, empty_input_decodes>>
    /\ UNCHANGED <<fs, nsaves, saved, altered, entries_pc, parallelism, files_iter,
                   in_flight, emitted>>

\* The caller takes the result; the task slot is free for the next call.
SaveReturn(t) ==
    /\ save_task[t].pc = "returned"
    /\ save_task' = [save_task EXCEPT ![t] = IdleTask]
    /\ UNCHANGED <<not_store_vars, empty_input_decodes>>
    /\ UNCHANGED <<fs, nsaves, saved, altered, entries_pc, parallelism, files_iter,
                   in_flight, emitted>>


\* Byte sequences a file can be overwritten with from outside: complete
\* frames, frames cut short, an empty file, bytes that are no frame.
CorruptBytes ==
    LET frames == {ZstdEncode(c) : c \in Contents}
    IN UNION {{SubSeq(f, 1, n) : n \in 0..Len(f)} : f \in frames} \cup {<<0>>}

\* Something other than the store alters the bytes of a stored file.
Corrupt(path, bytes) ==
    /\ StoreQuiet
    /\ Cardinality(altered) < MaxAltered
    /\ is_file(path)
    /\ bytes # fs[path].bytes
    /\ fs' = [fs EXCEPT ![path] = FileNode(bytes)]
    /\ altered' = altered \cup {path}
    /\ UNCHANGED <<not_store_vars, empty_input_decodes>>
    /\ UNCHANGED <<save_task, nsaves, saved, entries_pc, parallelism, files_iter,
                   in_flight, emitted>>

CharIndex(c) == CHOOSE i \in 1..Len(Alphabet) : Alphabet[i] = c

\* Ordering of names (str::cmp): the first differing character decides, a
\* proper prefix is smaller.
NameLess(a, b) ==
    \/ \E i \in 1..Min(Len(a), Len(b)) :
          /\ \A j \in 1..(i - 1) : a[j] = b[j]
          /\ CharIndex(a[i]) < CharIndex(b[i])
    \/ Len(a) < Len(b) /\ SubSeq(b, 1, Len(a)) = a

Children(path) ==
    {q \in DOMAIN fs : Len(q) = Len(path) + 1 /\ SubSeq(q, 1, Len(path)) = path}

\* dir_contents gives the directory's entries; the iterators pop them from
\* the end of the reversed sorted vector, that is in ascending order.
dir_contents(path) ==
    LET kids == Children(path)
        rank(q) == Cardinality({r \in kids : NameLess(r[Len(r)], q[Len(q)])})
    IN [i \in 1..Cardinality(kids) |-> CHOOSE q \in kids : rank(q) = i - 1]

OkPath(path) == [ok |-> TRUE, path |-> path]
IoErr(path) == [ok |-> FALSE, path |-> path]

\* DirectoryIter: the second-level paths, an error for every first-level
\* path that read_dir cannot read.
DirectoryIter ==
    LET level0 == dir_contents(Root)
    IN ConcatAll([i \in 1..Len(level0) |->
            IF is_dir(level0[i])
            THEN LET level1 == dir_contents(level0[i])
                 IN [j \in 1..Len(level1) |-> OkPath(level1[j])]
            ELSE <<IoErr(level0[i])>>])

\* FileIter: the third-level paths.
FileIter ==
    LET directories == DirectoryIter
    IN ConcatAll([i \in 1..Len(directories) |->
            IF directories[i].ok
            THEN IF is_dir(directories[i].path)
                 THEN LET current == dir_contents(directories[i].path)
                      IN [j \in 1..Len(current) |-> OkPath(current[j])]
                 ELSE <<IoErr(directories[i].path)>>
            ELSE <<directories[i]>>])

\* validate_directory_path
validate_directory_path(path) ==
    /\ is_dir(path)
    /\ Len(path) >= 1
    /\ Len(path[Len(path)]) = DirNameLen
    /\ \A i \in 1..Len(path[Len(path)]) : is_valid_char(path[Len(path)][i])

Item(kind, path, digest, actual) ==
    [kind |-> kind, path |-> path, digest |-> digest, actual |-> actual]

\* Mutant of validate: the file name is held to be the bare digest.
validate_without_extension(path) ==
    LET filename == path[Len(path)]
    IN IF Len(filename) = DigestLen /\ \A i \in 1..DigestLen : is_valid_char(filename[i])
       THEN Item("Entry", path, filename, <<>>)
       ELSE Item("Unexpected", path, <<>>, <<>>)

\* validate: the Entry of a path, or Unexpected.
validate(path) ==
    LET level1 == Parent(path)
        level0 == Parent(level1)
        filename == path[Len(path)]
    IN IF Len(path) >= 2 /\ validate_directory_path(level0) /\ validate_directory_path(level1)
       THEN IF /\ Len(filename) = FileNameLen
               /\ \A i \in 1..DigestLen : is_valid_char(filename[i])
               /\ SubSeq(filename, Len(filename) - 3, Len(filename)) = ZstExt
            THEN Item("Entry", path, SubSeq(filename, 1, DigestLen), <<>>)
            ELSE Item("Unexpected", path, <<>>, <<>>)
       ELSE Item("Unexpected", path, <<>>, <<>>)

\* Mutant of ValidationTask: the recomputed digest is not compared.
ValidationTaskNoCompare(path) ==
    LET entry == validate(path)
    IN IF entry.kind = "Entry" /\ (~is_file(path) \/ ZstdDecode(fs[path].bytes) = None)
       THEN Item("ValidationIo", path, entry.digest, <<>>)
       ELSE entry

\* The task ItemStore::entries spawns for one path: validate, then open,
\* decode and digest the file.
ValidationTask(path) ==
    LET entry == validate(path)
    IN IF entry.kind = "Entry"
       THEN LET decoded == IF is_file(path) THEN ZstdDecode(fs[path].bytes) ELSE None
            IN IF decoded = None
               THEN Item("ValidationIo", path, entry.digest, <<>>)
               ELSE IF compute_digest(decoded[1]) = entry.digest
                    THEN entry
                    ELSE Item("InvalidDigest", path, entry.digest,
                              compute_digest(decoded[1]))
       ELSE entry

\* ItemStore::entries(parallelism): the stream is created over self.files().
EntriesStart(n) ==
    /\ StoreQuiet
    /\ entries_pc' = "running"
    /\ parallelism' = n
    /\ files_iter' = FileIter
    /\ in_flight' = {}
    /\ emitted' = <<>>
    /\ UNCHANGED <<not_store_vars, empty_input_decodes>>
    /\ UNCHANGED <<fs, save_task, nsaves, saved, altered>>

\* try_buffer_unordered pulls the next path and spawns its task while fewer
\* than `parallelism` are in progress; an error of the iterator is yielded.
EntriesSpawn ==
    /\ entries_pc = "running"
    /\ files_iter # <<>>
    /\ Cardinality(in_flight) < parallelism
    /\ files_iter' = Tail(files_iter)
    /\ IF Head(files_iter).ok
       THEN /\ in_flight' = in_flight \cup {Head(files_iter).path}
            /\ emitted' = emitted
       ELSE /\ in_flight' = in_flight
            /\ emitted' = Append(emitted, Item("Io", Head(files_iter).path, <<>>, <<>>))
    /\ UNCHANGED <<not_store_vars, empty_input_decodes>>
    /\ UNCHANGED <<fs, save_task, nsaves, saved, altered, entries_pc, parallelism>>

\* A spawned task completes and the stream yields its result.
EntriesComplete(path) ==
    /\ entries_pc = "running"
    /\ path \in in_flight
    /\ in_flight' = in_flight \ {path}
    /\ emitted' = Append(emitted, ValidationTask(path))
    /\ UNCHANGED <<not_store_vars, empty_input_decodes>>
    /\ UNCHANGED <<fs, save_task, nsaves, saved, altered, entries_pc, parallelism,
                   files_iter>>

\* The iterator is exhausted and nothing is in progress: the stream ends.
EntriesEnd ==
    /\ entries_pc = "running"
    /\ files_iter = <<>>
    /\ in_flight = {}
    /\ entries_pc' = "done"
    /\ UNCHANGED <<not_store_vars, empty_input_decodes>>
    /\ UNCHANGED <<fs, save_task, nsaves, saved, altered, parallelism, files_iter,
                   in_flight, emitted>>

\* The stream is dropped.
EntriesDrop ==
    /\ entries_pc = "done"
    /\ entries_pc' = "idle"
    /\ emitted' = <<>>
    /\ UNCHANGED <<not_store_vars, empty_input_decodes>>
    /\ UNCHANGED <<fs, save_task, nsaves, saved, altered, parallelism, files_iter,
                   in_flight>>

\* The digests handed to save: the digests of the contents, and strings that
\* are no digest (too short, too long, a lower-case letter, a digit outside
\* the alphabet).
DigestInputs ==
    LET d == compute_digest(<<>>)
    IN {compute_digest(c) : c \in Contents} \cup
       {SubSeq(d, 1, DigestLen - 1), d \o <<"A">>, [d EXCEPT ![5] = "a"],
        [d EXCEPT ![1] = "1"]}

\* A store directory that exists and is empty, one caller of save.
InitStore ==
    /\ fs = (Root :> DirNode)
    /\ empty_input_decodes \in BOOLEAN
    /\ save_task = [t \in {1} |-> IdleTask]
    /\ nsaves = 0
    /\ saved = EmptyMap
    /\ altered = {}
    /\ entries_pc = "idle"
    /\ parallelism = 1
    /\ files_iter = <<>>
    /\ in_flight = {}
    /\ emitted = <<>>

NextStore ==
    \/ \E t \in SaveTasks, digest \in DigestInputs, reader \in Contents :
          \E fail_at \in (0..Len(reader)) \cup {NoFail} :
              SaveStart(t, digest, reader, fail_at)
    \/ \E t \in SaveTasks : SaveCreateDirAll(t)
    \/ \E t \in SaveTasks : SaveFileCreate(t)
    \/ \E t \in SaveTasks : SaveCopy(t)
    \/ \E t \in SaveTasks : SaveFinish(t)
    \/ \E t \in SaveTasks : SaveAbandon(t)
    \/ \E t \in SaveTasks : SaveReturn(t)
    \/ \E path \in DOMAIN fs, bytes \in CorruptBytes : Corrupt(path, bytes)
    \/ \E n \in 1..MaxParallelism : EntriesStart(n)
    \/ EntriesSpawn
    \/ \E path \in in_flight : EntriesComplete(path)
    \/ EntriesEnd
    \/ EntriesDrop

(***************************************************************************)
(* Item store claims.                                                      *)
(***************************************************************************)
\* 32 characters of the Base32 alphabet [A-Z2-7].
IsBase32Sha1(d) ==
    Len(d) = 32 /\ \A i \in 1..Len(d) : \E k \in 1..Len(Base32Alphabet) : d[i] = Base32Alphabet[k]

\* base/D[0..2]/D[2..4]/D.zst
CanonicalPath(d) == <<<<d[1], d[2]>>, <<d[3], d[4]>>, d \o <<".", "z", "s", "t">>>>

Returned(t) == save_task[t].pc = "returned"

C3_State ==
    /\ \A t \in SaveTasks :
          Returned(t) /\ save_task[t].prior => save_task[t].result.kind = "None"
    /\ \A d \in DOMAIN saved :
          CanonicalPath(d) \notin altered =>
              /\ is_file(CanonicalPath(d))
              /\ ZstdDecode(fs[CanonicalPath(d)].bytes) = Some(saved[d])

\* A save of a digest that was stored before returns at once, and the file
\* system is as it was.
C3_Step ==
    \A t \in SaveTasks :
        save_task[t].pc = "idle" /\ save_task'[t].pc # "idle" /\ save_task'[t].prior =>
            save_task'[t].pc = "returned" /\ fs' = fs

\* C3: a save that starts after a save of the same digest has returned Some
\* returns Ok(None) and writes nothing, and as long as nothing but the store
\* touches the file, the file of every digest still decompresses to the
\* bytes of the save that first returned Some for it.
C3_SecondSaveIsNone == [](C3_State) /\ [][C3_Step]_vars

\* C3 witness: a second save of a stored digest has returned None and the
\* file still holds the bytes of the first save.
C3_Witness ==
    \E t \in SaveTasks :
        /\ Returned(t) /\ save_task[t].prior /\ save_task[t].result.kind = "None"
        /\ saved[save_task[t].digest] # <<>>
        /\ ZstdDecode(fs[save_task[t].path].bytes) = Some(saved[save_task[t].digest])

C4_State ==
    \A t \in SaveTasks :
        Returned(t) =>
            /\ save_task[t].result.kind = "Some" =>
                  /\ contains(save_task[t].digest)
                  /\ is_file(CanonicalPath(save_task[t].digest))
                  /\ ZstdDecode(fs[CanonicalPath(save_task[t].digest)].bytes)
                        = Some(save_task[t].reader)
            /\ save_task[t].result.kind = "InvalidDigest" <=> ~IsBase32Sha1(save_task[t].digest)
            /\ (location(save_task[t].digest) = None) <=> ~IsBase32Sha1(save_task[t].digest)

C4_Step ==
    \A t \in SaveTasks :
        save_task[t].pc = "idle" /\ save_task'[t].result.kind = "InvalidDigest" => fs' = fs

\* C4: when save(D, B) returns Some, contains(D) holds and the file at
\* base/D[0..2]/D[2..4]/D.zst decompresses to exactly B; location(D) is None
\* and save returns InvalidDigest exactly when D is not 32 Base32 characters,
\* and such a save leaves the file system as it was.
C4_SaveThenContains == [](C4_State) /\ [][C4_Step]_vars

\* C4 witness: a save of a non-empty content has returned Some.
C4_Witness ==
    \E t \in SaveTasks :
        /\ Returned(t) /\ save_task[t].result.kind = "Some"
        /\ save_task[t].reader # <<>>

\* C5: after a save that failed or was abandoned once it had started, no file
\* exists at location(D) (so contains(D) is false and a later save stores).
C5_NoFileAfterFailedSave ==
    \A t \in SaveTasks :
        Returned(t) /\ save_task[t].result.kind \in {"ImportIo", "Abandoned"}
            => ~exists(save_task[t].path)

\* The file paths of the store (everything FileIter yields as a path).
StoreFiles == {q \in DOMAIN fs : Len(q) = 3}

\* The file sits at base/XX/YY/<digest>.zst and decompresses to content whose
\* SHA-1 is the digest in its name.
Honest(q) ==
    /\ fs[q].kind = "file"
    /\ Len(q[3]) = 36
    /\ IsBase32Sha1(SubSeq(q[3], 1, 32))
    /\ q = CanonicalPath(SubSeq(q[3], 1, 32))
    /\ ZstdDecode(fs[q].bytes) # None
    /\ compute_digest(ZstdDecode(fs[q].bytes)[1]) = SubSeq(q[3], 1, 32)

ItemsFor(q) == {i \in 1..Len(emitted) : emitted[i].path = q}

OneItem(q, kind) ==
    /\ Cardinality(ItemsFor(q)) = 1
    /\ \A i \in ItemsFor(q) : emitted[i].kind = kind

\* Exactly one file is altered, it is not honest, and every other file is.
OneAltered(q) ==
    /\ altered = {q}
    /\ ~Honest(q)
    /\ \A r \in StoreFiles \ {q} : Honest(r)

\* C6 as claimed: with one altered file, the stream yields for it exactly one
\* InvalidDigest item whose recomputed digest differs from the digest in the
\* name, Ok(Entry) for every other file, and nothing else.
C6_AlteredIsInvalidDigest ==
    \A q \in StoreFiles :
        entries_pc = "done" /\ OneAltered(q) =>
            /\ Len(emitted) = Cardinality(StoreFiles)
            /\ OneItem(q, "InvalidDigest")
            /\ \A i \in ItemsFor(q) : emitted[i].actual # emitted[i].digest
            /\ \A r \in StoreFiles \ {q} : OneItem(r, "Entry")

\* C6 amended: with one altered file, the stream yields one item per file,
\* Ok(Entry) for every other file, and for the altered file exactly one item:
\* InvalidDigest with a recomputed digest that differs from the name's when
\* its bytes still decode, Err(ValidationIo) when they do not.
C6_AlteredIsReported ==
    \A q \in StoreFiles :
        entries_pc = "done" /\ OneAltered(q) =>
            /\ Len(emitted) = Cardinality(StoreFiles)
            /\ \A r \in StoreFiles \ {q} : OneItem(r, "Entry")
            /\ IF ZstdDecode(fs[q].bytes) = None
               THEN OneItem(q, "ValidationIo")
               ELSE /\ OneItem(q, "InvalidDigest")
                    /\ \A i \in ItemsFor(q) :
                          /\ emitted[i].digest = SubSeq(q[3], 1, 32)
                          /\ emitted[i].actual = compute_digest(ZstdDecode(fs[q].bytes)[1])
                          /\ emitted[i].actual # emitted[i].digest

\* C6 witness: the stream has ended over a store of two files, one of them
\* altered into a frame of other content.
C6_Witness ==
    \E q \in StoreFiles :
        /\ entries_pc = "done" /\ OneAltered(q)
        /\ Cardinality(StoreFiles) >= 2
        /\ ZstdDecode(fs[q].bytes) # None
        /\ OneItem(q, "InvalidDigest")

\* C7: over a store in which every file is honest, the stream yields exactly
\* one item per file, each Ok(Entry) with that file's path and digest, and no
\* other item, for every parallelism.
C7_HonestStoreAllOk ==
    entries_pc = "done" /\ (\A q \in StoreFiles : Honest(q)) =>
        /\ Len(emitted) = Cardinality(StoreFiles)
        /\ \A q \in StoreFiles :
              /\ OneItem(q, "Entry")
              /\ \A i \in ItemsFor(q) : emitted[i].digest = SubSeq(q[3], 1, 32)

\* C7 witness: the stream has ended with parallelism 2 over two honest files.
C7_Witness ==
    /\ entries_pc = "done"
    /\ parallelism = 2
    /\ Cardinality(StoreFiles) >= 2
    /\ \A q \in StoreFiles : Honest(q)
    /\ Len(emitted) = 2


(***************************************************************************)
(* The catalog (manager/src/db).  A table is the set of its rows.          *)
(***************************************************************************)
\* The UNIQUE constraints of the schema.  A pattern row is abstracted to its
\* id and slug; pattern_entry is a set of (pattern_id, entry_id) pairs.
SurtUnique == {"value"}
EntryUnique == {"url", "surt_id", "ts", "digest", "mime_type", "status_code", "length"}
SnapshotUnique == {"digest"}
EntrySuccessUnique == {"entry_id", "snapshot_id"}
PatternUnique == {"slug"}
PatternEntryUnique == {"pattern_id", "entry_id"}

\* The columns that can hold NULL (an Option in the statements).
Nullable == {"status_code"}

\* INTEGER PRIMARY KEY: the row id after the largest one.
NextRowId(table) ==
    IF table = {} THEN 1
    ELSE (CHOOSE r \in table : \A q \in table : q.id <= r.id).id + 1

\* Two rows collide on a UNIQUE constraint when they agree on all its
\* columns; a NULL is distinct from every value, itself included.
Collides(row, new, unique) ==
    \A c \in unique : (c \in Nullable => row[c] # None) /\ row[c] = new[c]

\* INSERT ... ON CONFLICT DO UPDATE SET id = id RETURNING id
Upsert(table, new, unique) ==
    LET hit == {r \in table : Collides(r, new, unique)}
    IN IF hit # {}
       THEN [table |-> table, id |-> (CHOOSE r \in hit : TRUE).id]
       ELSE [table |-> table \cup {new}, id |-> new.id]

\* db::surt::insert
surt_insert(d, value) ==
    LET up == Upsert(d.surt, [id |-> NextRowId(d.surt), value |-> value], SurtUnique)
    IN [db |-> [d EXCEPT !.surt = up.table], id |-> up.id]

\* db::entry::insert_entry
insert_entry(d, entry, surt_id) ==
    LET row == [id |-> NextRowId(d.entry),
                url |-> entry.original,
                surt_id |-> surt_id,
                ts |-> entry.timestamp,
                digest |-> entry.digest,
                mime_type |-> entry.mime_type,
                status_code |-> entry.status_code,
                length |-> entry.length]
        up == Upsert(d.entry, row, EntryUnique)
    IN [db |-> [d EXCEPT !.entry = up.table], id |-> up.id]

\* db::entry::insert
insert(d, entry) ==
    LET s == surt_insert(d, entry.key)
    IN insert_entry(s.db, entry, s.id)

\* db::snapshot::insert
snapshot_insert(d, digest) ==
    LET up == Upsert(d.snapshot, [id |-> NextRowId(d.snapshot), digest |-> digest],
                     SnapshotUnique)
    IN [db |-> [d EXCEPT !.snapshot = up.table], id |-> up.id]

\* Mutant of insert_entry_success: the conflicting row takes the new values
\* (ON CONFLICT DO UPDATE SET correct_digest = excluded.correct_digest, ts = excluded.ts).
insert_entry_success_overwrite(d, entry_id, digest, correct_digest, timestamp) ==
    LET s == snapshot_insert(d, digest)
        hit == {r \in s.db.entry_success : r.entry_id = entry_id /\ r.snapshot_id = s.id}
        row == [id |-> NextRowId(s.db.entry_success), entry_id |-> entry_id,
                snapshot_id |-> s.id, correct_digest |-> correct_digest, ts |-> timestamp]
    IN IF hit = {}
       THEN [db |-> [s.db EXCEPT !.entry_success = @ \cup {row}], id |-> row.id]
       ELSE [db |-> [s.db EXCEPT !.entry_success =
                        (@ \ hit) \cup {[r EXCEPT !.correct_digest = correct_digest,
                                                  !.ts = timestamp] : r \in hit}],
             id |-> (CHOOSE r \in hit : TRUE).id]

\* db::entry::insert_entry_success: the transaction as a whole.
insert_entry_success(d, entry_id, digest, correct_digest, timestamp) ==
    LET s == snapshot_insert(d, digest)
        row == [id |-> NextRowId(s.db.entry_success), entry_id |-> entry_id,
                snapshot_id |-> s.id, correct_digest |-> correct_digest, ts |-> timestamp]
        up == Upsert(s.db.entry_success, row, EntrySuccessUnique)
    IN [db |-> [s.db EXCEPT !.entry_success = up.table], id |-> up.id]

\* db::pattern::insert
pattern_insert(d, pattern) ==
    LET up == Upsert(d.pattern, [id |-> NextRowId(d.pattern), slug |-> pattern.slug],
                     PatternUnique)
    IN [db |-> [d EXCEPT !.pattern = up.table], id |-> up.id]

\* Mutant of insert_pattern_entry: a plain INSERT.
insert_pattern_entry_always(d, pattern_id, entry_id) ==
    [d EXCEPT !.pattern_entry =
        @ \cup {[pattern_id |-> pattern_id, entry_id |-> entry_id, rowid |-> Cardinality(@) + 1]}]

\* db::pattern::insert_pattern_entry: INSERT OR IGNORE
insert_pattern_entry(d, pattern_id, entry_id) ==
    LET new == [pattern_id |-> pattern_id, entry_id |-> entry_id,
                rowid |-> Cardinality(d.pattern_entry) + 1]
    IN IF \E r \in d.pattern_entry : Collides(r, new, PatternEntryUnique)
       THEN d
       ELSE [d EXCEPT !.pattern_entry = @ \cup {new}]

SurtKeys == {<<"com", k>> : k \in 1..NumKeys}
DbDigests == {<<"D", k>> : k \in 1..NumDbDigests}
StatusCodes == {None, Some(200), Some(404)}

\* The CDX entries handed to insert.
CdxEntries ==
    [key : SurtKeys, timestamp : 1..MaxTimestamp, original : {"https://test.com/"},
     mime_type : {"text/html"}, status_code : StatusCodes, digest : DbDigests,
     length : 1..MaxLength]

\* Index::open on an empty directory: nothing written, nothing committed,
\* a reader loaded at open, surt_ids: None, no search made.
IndexOpen ==
    [writer |-> <<>>, committed |-> <<>>, searcher |-> <<>>, surt_ids |-> None,
     initialized |-> FALSE, search |-> None]

\* No call is running on the connection.
Idle == [op |-> "idle", pc |-> "ok"]

InitDb ==
    /\ db = [surt |-> {}, entry |-> {}, snapshot |-> {}, entry_success |-> {},
             pattern |-> {}, pattern_entry |-> {}]
    /\ db_calls = <<>>
    /\ tx = None
    /\ run = Idle
    /\ nruns = 0
    /\ success_log = {}
    /\ index_docs = {}
    /\ search_result = None
    /\ call = None
    /\ returned = None
    /\ index_state = IndexOpen

\* A call of db::entry::insert
Insert(entry) ==
    /\ Len(db_calls) < MaxCalls
    /\ LET r == insert(db, entry)
       IN /\ db' = r.db
          /\ db_calls' = Append(db_calls, [op |-> "insert", arg |-> entry, id |-> r.id])
    /\ UNCHANGED not_db_vars

\* A call of db::entry::insert_entry_success for an entry of the catalog
InsertEntrySuccess(entry_id, digest, correct_digest, timestamp) ==
    /\ Len(db_calls) < MaxCalls
    /\ \E e \in db.entry : e.id = entry_id
    /\ LET r == insert_entry_success(db, entry_id, digest, correct_digest, timestamp)
       IN /\ db' = r.db
          /\ db_calls' = Append(db_calls,
                [op |-> "insert_entry_success",
                 arg |-> [entry_id |-> entry_id, digest |-> digest,
                          correct_digest |-> correct_digest, timestamp |-> timestamp],
                 id |-> r.id])
    /\ UNCHANGED not_db_vars

NextDb ==
    \/ \E entry \in CdxEntries : Insert(entry)
    \/ \E entry_id \in 1..MaxCalls, digest \in DbDigests, correct_digest \in BOOLEAN,
          timestamp \in 1..MaxTimestamp :
              InsertEntrySuccess(entry_id, digest, correct_digest, timestamp)

(***************************************************************************)
(* Catalog claims.                                                         *)
(***************************************************************************)
Calls(op) == {i \in 1..Len(db_calls) : db_calls[i].op = op}

\* The entry rows that hold the CDX entry e.
EntryRows(e) ==
    {r \in db.entry :
        /\ r.url = e.original /\ r.ts = e.timestamp /\ r.digest = e.digest
        /\ r.mime_type = e.mime_type /\ r.status_code = e.status_code
        /\ r.length = e.length
        /\ \E s \in db.surt : s.id = r.surt_id /\ s.value = e.key}

\* C8: two calls of insert with the same CDX entry, whether or not it has a
\* status code, return the same id, and the catalog holds exactly one entry
\* row and one surt row for it.
C8_ReinsertSameId ==
    \A i, j \in Calls("insert") :
        i < j /\ db_calls[i].arg = db_calls[j].arg =>
            /\ db_calls[i].id = db_calls[j].id
            /\ Cardinality(EntryRows(db_calls[i].arg)) = 1
            /\ Cardinality({s \in db.surt : s.value = db_calls[i].arg.key}) = 1

\* C9: as test_insert asserts, an insert that differs from an earlier one
\* only in status code and length returns the id of the earlier entry, and
\* one that differs in its timestamp returns another id.
C9_IdsAsTestInsert ==
    \A i, j \in Calls("insert") :
        LET a == db_calls[i].arg
            b == db_calls[j].arg
        IN i < j /\ a.original = b.original /\ a.key = b.key /\ a.digest = b.digest
                 /\ a.mime_type = b.mime_type =>
              /\ a.timestamp # b.timestamp => db_calls[i].id # db_calls[j].id
              /\ (a.timestamp = b.timestamp /\ a.status_code # b.status_code
                    /\ a.length # b.length) => db_calls[i].id = db_calls[j].id

SnapshotRows(digest) == {r \in db.snapshot : r.digest = digest}

SuccessRows(entry_id, digest) ==
    {r \in db.entry_success :
        r.entry_id = entry_id /\ \E s \in SnapshotRows(digest) : s.id = r.snapshot_id}

SamePair(i, j) ==
    /\ db_calls[i].arg.entry_id = db_calls[j].arg.entry_id
    /\ db_calls[i].arg.digest = db_calls[j].arg.digest

\* C10: calls of insert_entry_success with the same entry_id and digest
\* return the same id; the catalog holds one entry_success row and one
\* snapshot row for them, and that row keeps the correct_digest and ts of the
\* first of these calls.
C10_EntrySuccessIdempotent ==
    \A i, j \in Calls("insert_entry_success") :
        i < j /\ SamePair(i, j)
              /\ (\A k \in Calls("insert_entry_success") : SamePair(k, i) => i <= k) =>
            /\ db_calls[i].id = db_calls[j].id
            /\ Cardinality(SnapshotRows(db_calls[i].arg.digest)) = 1
            /\ Cardinality(SuccessRows(db_calls[i].arg.entry_id, db_calls[i].arg.digest)) = 1
            /\ \A r \in SuccessRows(db_calls[i].arg.entry_id, db_calls[i].arg.digest) :
                  /\ r.id = db_calls[i].id
                  /\ r.correct_digest = db_calls[i].arg.correct_digest
                  /\ r.ts = db_calls[i].arg.timestamp

\* C10 witness: insert_entry_success was called twice for one entry and
\* digest, with different correct_digest and ts.
C10_Witness ==
    \E i, j \in Calls("insert_entry_success") :
        /\ i < j /\ SamePair(i, j)
        /\ db_calls[i].arg.correct_digest # db_calls[j].arg.correct_digest
        /\ db_calls[i].arg.timestamp # db_calls[j].arg.timestamp
        /\ db_calls[i].id = db_calls[j].id


(***************************************************************************)
(* The connection: calls of db::entry::insert, of                          *)
(* db::entry::insert_entry_success and of import_cdx_store, one statement  *)
(* at a time.  Any statement can fail with an sqlx::Error, and the future  *)
(* of a call can be dropped between two statements.                        *)
(***************************************************************************)
\* connection.begin(): the statements of the transaction work on a copy.
Begin(d) == Some(d)

\* Mutant of Rollback: the statements of a dropped transaction stay.
RollbackKeeps(d, t) == t[1]

\* A Transaction dropped without commit: the catalog is as it was.
Rollback(d, t) == d

\* tx.commit()
Commit(d, t) == t[1]

\* The catalog a statement on the connection sees.
Visible == IF tx = None THEN db ELSE tx[1]

\* A statement has left the catalog n: inside a transaction it changes the
\* working copy, on the plain connection it is committed at once.
Executed(n) ==
    IF tx = None THEN db' = n /\ tx' = None ELSE tx' = Some(n) /\ db' = db

\* `?` on an Err: the call returns, dropping its transaction if it has one.
Failed ==
    /\ run' = [run EXCEPT !.pc = "err"]
    /\ db' = IF tx = None THEN db ELSE Rollback(db, tx)
    /\ tx' = None

Finished == run.pc \in {"ok", "err", "dropped"}

CanStart == Finished /\ tx = None /\ nruns < MaxRuns

\* The CDX entries of these calls.
TxEntries ==
    [key : SurtKeys, timestamp : {1}, original : {"https://test.com/"},
     mime_type : {"text/html"}, status_code : {None, Some(200)},
     digest : {<<"D", 1>>}, length : {1}]

Patterns == [slug : {<<"p", k>> : k \in 1..NumPatterns}]

RECURSIVE SeqsUpTo(_, _)
SeqsUpTo(S, n) ==
    IF n = 0 THEN {<<>>}
    ELSE LET shorter == SeqsUpTo(S, n - 1)
         IN shorter \cup {Append(q, x) : q \in {r \in shorter : Len(r) = n - 1}, x \in S}

\* PatternConfig with the entries its CDX store holds.
PatternConfigs == [pattern : Patterns, entries : SeqsUpTo(TxEntries, MaxEntries)]

\* db::entry::insert on the plain connection
InsertStart(entry) ==
    /\ CanStart
    /\ run' = [op |-> "insert", pc |-> "surt", entry |-> entry, surt_id |-> 0, id |-> 0,
               db0 |-> db]
    /\ nruns' = nruns + 1
    /\ UNCHANGED <<db, tx, success_log, not_tx_vars>>

\* db::entry::insert, first statement: surt::insert
InsertSurt(fail) ==
    /\ ~Finished /\ run.pc = "surt"
    /\ IF fail THEN Failed
       ELSE LET s == surt_insert(Visible, run.entry.key)
            IN /\ Executed(s.db)
               /\ run' = [run EXCEPT !.pc = "entry", !.surt_id = s.id]
    /\ UNCHANGED <<nruns, success_log, not_tx_vars>>

\* db::entry::insert, second statement: insert_entry; then the return to
\* the caller
InsertEntry(fail) ==
    /\ ~Finished /\ run.pc = "entry"
    /\ IF fail THEN Failed
       ELSE LET e == insert_entry(Visible, run.entry, run.surt_id)
            IN /\ Executed(e.db)
               /\ run' = [run EXCEPT !.pc = IF run.op = "insert" THEN "ok" ELSE "pattern_entry",
                                     !.id = e.id]
    /\ UNCHANGED <<nruns, success_log, not_tx_vars>>

\* db::entry::insert_entry_success: connection.begin()
InsertEntrySuccessStart(entry_id, digest, correct_digest, timestamp, fail) ==
    /\ CanStart
    /\ run' = [op |-> "insert_entry_success", pc |-> IF fail THEN "err" ELSE "snapshot",
               entry_id |-> entry_id, digest |-> digest, correct_digest |-> correct_digest,
               timestamp |-> timestamp, snapshot_id |-> 0, id |-> 0, db0 |-> db]
    /\ tx' = IF fail THEN None ELSE Begin(db)
    /\ nruns' = nruns + 1
    /\ UNCHANGED <<db, success_log, not_tx_vars>>

\* db::entry::insert_entry_success: snapshot::insert(&mut *tx, digest)
InsertEntrySuccessSnapshot(fail) ==
    /\ ~Finished /\ run.pc = "snapshot"
    /\ IF fail THEN Failed
       ELSE LET s == snapshot_insert(Visible, run.digest)
            IN /\ Executed(s.db)
               /\ run' = [run EXCEPT !.pc = "entry_success", !.snapshot_id = s.id]
    /\ UNCHANGED <<nruns, success_log, not_tx_vars>>

\* db::entry::insert_entry_success: the upsert of entry_success
InsertEntrySuccessUpsert(fail) ==
    /\ ~Finished /\ run.pc = "entry_success"
    /\ IF fail THEN Failed
       ELSE LET d == Visible
                row == [id |-> NextRowId(d.entry_success), entry_id |-> run.entry_id,
                        snapshot_id |-> run.snapshot_id,
                        correct_digest |-> run.correct_digest, ts |-> run.timestamp]
                up == Upsert(d.entry_success, row, EntrySuccessUnique)
            IN /\ Executed([d EXCEPT !.entry_success = up.table])
               /\ run' = [run EXCEPT !.pc = "commit", !.id = up.id]
    /\ UNCHANGED <<nruns, success_log, not_tx_vars>>

\* import_cdx_store: store.entries()?, then connection.begin()
ImportStart(config, fail) ==
    /\ CanStart
    /\ run' = [op |-> "import", pc |-> IF fail THEN "err" ELSE "pattern",
               pattern |-> config.pattern, all_entries |-> config.entries,
               entries |-> config.entries, pattern_id |-> 0, entry |-> None,
               surt_id |-> 0, id |-> 0, db0 |-> db]
    /\ tx' = IF fail THEN None ELSE Begin(db)
    /\ nruns' = nruns + 1
    /\ UNCHANGED <<db, success_log, not_tx_vars>>

\* import_cdx_store: the head of the loop over the entries
NextEntry(r) ==
    IF r.entries = <<>>
    THEN [r EXCEPT !.pc = "commit"]
    ELSE [r EXCEPT !.pc = "surt", !.entry = Head(r.entries), !.entries = Tail(r.entries)]

\* import_cdx_store: pattern::insert(&mut *tx, &config.pattern)
ImportPattern(fail) ==
    /\ ~Finished /\ run.pc = "pattern"
    /\ IF fail THEN Failed
       ELSE LET p == pattern_insert(Visible, run.pattern)
            IN /\ Executed(p.db)
               /\ run' = NextEntry([run EXCEPT !.pattern_id = p.id])
    /\ UNCHANGED <<nruns, success_log, not_tx_vars>>

\* import_cdx_store: insert_pattern_entry(&mut *tx, pattern_id, entry_id)
ImportPatternEntry(fail) ==
    /\ ~Finished /\ run.pc = "pattern_entry"
    /\ IF fail THEN Failed
       ELSE /\ Executed(insert_pattern_entry(Visible, run.pattern_id, run.id))
            /\ run' = NextEntry(run)
    /\ UNCHANGED <<nruns, success_log, not_tx_vars>>

\* tx.commit() of insert_entry_success and of import_cdx_store
CommitTx(fail) ==
    /\ ~Finished /\ run.pc = "commit"
    /\ IF fail THEN Failed
       ELSE /\ db' = Commit(db, tx)
            /\ tx' = None
            /\ run' = [run EXCEPT !.pc = "ok"]
    /\ UNCHANGED <<nruns, success_log, not_tx_vars>>

\* The future of the running call is dropped at an await.
DropCall ==
    /\ ~Finished
    /\ run' = [run EXCEPT !.pc = "dropped"]
    /\ db' = IF tx = None THEN db ELSE Rollback(db, tx)
    /\ tx' = None
    /\ UNCHANGED <<nruns, success_log, not_tx_vars>>

NextTx ==
    \/ \E entry \in TxEntries : InsertStart(entry)
    \/ \E fail \in BOOLEAN : InsertSurt(fail)
    \/ \E fail \in BOOLEAN : InsertEntry(fail)
    \/ \E entry_id \in 1..2, digest \in DbDigests, correct_digest \in BOOLEAN,
          fail \in BOOLEAN :
              InsertEntrySuccessStart(entry_id, digest, correct_digest, 1, fail)
    \/ \E fail \in BOOLEAN : InsertEntrySuccessSnapshot(fail)
    \/ \E fail \in BOOLEAN : InsertEntrySuccessUpsert(fail)
    \/ \E config \in PatternConfigs, fail \in BOOLEAN : ImportStart(config, fail)
    \/ \E fail \in BOOLEAN : ImportPattern(fail)
    \/ \E fail \in BOOLEAN : ImportPatternEntry(fail)
    \/ \E fail \in BOOLEAN : CommitTx(fail)
    \/ DropCall

\* C17: a call of insert_entry_success that has not committed, whether it is
\* still running, failed at any statement or was dropped, leaves the catalog as
\* it was when the call began; in particular the snapshot row that the call
\* upserted is not in the catalog.
C17_EntrySuccessAtomic ==
    run.op = "insert_entry_success" /\ run.pc # "ok" => db = run.db0

\* C17 witness: the call upserted a new snapshot row and then failed.
C17_Witness ==
    /\ run.op = "insert_entry_success"
    /\ run.pc = "err"
    /\ run.snapshot_id # 0
    /\ \A r \in run.db0.snapshot : r.digest # run.digest

\* C18: a call of db::entry::insert on a connection without a transaction
\* whose entry upsert fails leaves the catalog as it was when the call began:
\* the surt row it upserted is gone.
C18_InsertAtomic ==
    run.op = "insert" /\ run.pc = "err" => db = run.db0

\* The pattern_entry rows that link entry row r to pattern row p.
Links(p, r) == {l \in db.pattern_entry : l.pattern_id = p /\ l.entry_id = r}

\* C19: import_cdx_store leaves the catalog as it was until it commits; when
\* a statement fails or the call is dropped, none of its rows are in the
\* catalog; when it succeeds, the pattern has a row, and every entry of the CDX
\* store has an entry row that exactly one pattern_entry row links to it.
C19_ImportOneTransaction ==
    run.op = "import" =>
        /\ run.pc # "ok" => db = run.db0
        /\ run.pc = "ok" =>
              /\ \E p \in db.pattern : p.id = run.pattern_id /\ p.slug = run.pattern.slug
              /\ \A i \in 1..Len(run.all_entries) :
                    \E r \in EntryRows(run.all_entries[i]) :
                        Cardinality(Links(run.pattern_id, r.id)) = 1

\* C19 witness: an import of a configuration whose CDX store holds the same
\* entry twice has succeeded on a catalog that already had pattern_entry
\* rows.
C19_Witness ==
    /\ run.op = "import"
    /\ run.pc = "ok"
    /\ Len(run.all_entries) = 2
    /\ run.all_entries[1] = run.all_entries[2]
    /\ run.db0.pattern_entry # {}


(***************************************************************************)
(* find_local_snapshots and import_invalid_digests (manager/src/import):   *)
(* runs over a catalog that db::entry::insert fills and an item store that *)
(* ItemStore::save fills meanwhile.                                        *)
(***************************************************************************)
\* The value of a Base32 symbol.
Base32Value(c) == (CHOOSE k \in 1..32 : Base32Alphabet[k] = c) - 1

\* BASE32.decode_mut of a string of whole 8-character blocks: the 5-bit
\* groups of the symbols before the padding of the last block, or the
\* failure (a character that is no symbol, a padding of a wrong length,
\* bits left over that are not zero).
Base32Decode(str) ==
    LET n == Cardinality({i \in 1..Len(str) : \A j \in i..Len(str) : str[j] = "="})
        m == Len(str) - n
        left == (5 * m) % 8
    IN IF /\ \A i \in 1..m : \E k \in 1..32 : Base32Alphabet[k] = str[i]
          /\ n \in {0, 1, 3, 4, 6}
          /\ n > 0 => Base32Value(str[m]) % (2 ^ left) = 0
       THEN Some([i \in 1..m |-> Base32Value(str[i])])
       ELSE None

\* BASE32.encode
Base32Encode(groups) == [i \in 1..Len(groups) |-> Base32Alphabet[groups[i] + 1]]

\* The bytes of a SHA-1 digest.
Sha1Len == 20

\* <Digest as FromStr>::from_str: Some of the Digest, or None for the Err.
DigestFromStr(str) ==
    IF Len(str) = DigestLen
    THEN IF Base32Decode(str) = None THEN None
         ELSE IF (5 * Len(Base32Decode(str)[1])) \div 8 = Sha1Len
         THEN Some([valid |-> TRUE, value |-> Base32Decode(str)[1]])
         ELSE Some([valid |-> FALSE, value |-> str])
    ELSE Some([valid |-> FALSE, value |-> str])

\* <Digest as Display>::fmt
DigestToString(digest) ==
    IF digest.valid THEN Base32Encode(digest.value) ELSE digest.value

\* The blobs the downloader saves meanwhile.
SavedContents == {<<>>, <<0>>}

\* The CDX entries of the catalog: their digests are those of blobs, or a
\* string that is no SHA-1 digest.
SnapshotEntries ==
    LET entries == [key : {<<"com", 1>>}, timestamp : {1}, original : {"https://test.com/"},
                    mime_type : {"text/html"}, status_code : {Some(200), Some(404)},
                    digest : {compute_digest(c) : c \in SavedContents} \cup {<<"3", "I">>},
                    length : {1}]
    IN {e \in entries : e.status_code = Some(404) => e.digest = compute_digest(<<>>)}

\* The InvalidDigest records handed to import_invalid_digests.
InvalidDigests ==
    [expected : {DigestFromStr(e.digest)[1] : e \in SnapshotEntries},
     actual : {DigestFromStr(compute_digest(c))[1] : c \in SavedContents}]

\* db::entry::missing_entries: the entries without entry_success, as
\* model::Entry values; None when a row fails to decode.
missing_entries(d, mime_type) ==
    LET rows == {e \in d.entry :
                    /\ e.mime_type = mime_type
                    /\ ~\E r \in d.entry_success : r.entry_id = e.id
                    /\ e.status_code \in {None, Some(200)}
                    /\ \E u \in d.surt : u.id = e.surt_id}
    IN IF \E e \in rows : DigestFromStr(e.digest) = None THEN None
       ELSE Some({[id |-> e.id, digest |-> DigestFromStr(e.digest)[1]] : e \in rows})

\* db::entry::find_entries_by_digest
find_entries_by_digest(d, digest) == {e.id : e \in {r \in d.entry : r.digest = digest}}

\* Mutant of ShouldImport: the store is not asked.
ShouldImportAlways(expected_digest, actual_digest) == TRUE

\* import_invalid_digests: the condition on the store
ShouldImport(expected_digest, actual_digest) ==
    ~contains(expected_digest) /\ contains(actual_digest)

\* insert_entry_success as a run calls it: the transaction as a whole, and
\* whether the blob is in the store when a new row is made.
RunInsertEntrySuccess(entry_id, digest, correct_digest) ==
    LET r == insert_entry_success(db, entry_id, digest, correct_digest, nruns)
    IN /\ db' = r.db
       /\ success_log' =
            IF \E row \in db.entry_success : row.id = r.id THEN success_log
            ELSE success_log \cup {[id |-> r.id, present |-> contains(digest)]}

\* A statement of a run fails: the run returns the Err.
RunFailed ==
    /\ run' = [run EXCEPT !.pc = "err"]
    /\ UNCHANGED <<db, success_log>>

\* find_local_snapshots up to the loop: missing_entries
FindLocalSnapshotsStart(mime_type, fail) ==
    /\ CanStart
    /\ LET entries == missing_entries(db, mime_type)
       IN run' = IF fail \/ entries = None
                 THEN [op |-> "find_local_snapshots", pc |-> "err", entries |-> {}]
                 ELSE [op |-> "find_local_snapshots",
                       pc |-> IF entries[1] = {} THEN "ok" ELSE "loop",
                       entries |-> entries[1]]
    /\ nruns' = nruns + 1
    /\ UNCHANGED <<db, tx, success_log, not_tx_vars>>

\* find_local_snapshots: one round of the loop, for the next entry of the
\* result (the query has no ORDER BY)
FindLocalSnapshotsStep(entry, fail) ==
    /\ run.op = "find_local_snapshots" /\ run.pc = "loop"
    /\ entry \in run.entries
    /\ LET digest == DigestToString(entry.digest)
           rest == run.entries \ {entry}
       IN IF contains(digest)
          THEN IF fail THEN RunFailed
               ELSE /\ RunInsertEntrySuccess(entry.id, digest, TRUE)
                    /\ run' = [run EXCEPT !.entries = rest,
                                          !.pc = IF rest = {} THEN "ok" ELSE "loop"]
          ELSE /\ run' = [run EXCEPT !.entries = rest,
                                     !.pc = IF rest = {} THEN "ok" ELSE "loop"]
               /\ UNCHANGED <<db, success_log>>
    /\ UNCHANGED <<tx, nruns, not_tx_vars>>

\* import_invalid_digests up to the loop
ImportInvalidDigestsStart(invalid_digests) ==
    /\ CanStart
    /\ run' = [op |-> "import_invalid_digests",
               pc |-> IF invalid_digests = <<>> THEN "ok" ELSE "loop",
               invalid_digests |-> invalid_digests, actual_digest |-> <<>>, entries |-> {}]
    /\ nruns' = nruns + 1
    /\ UNCHANGED <<db, tx, success_log, not_tx_vars>>

\* import_invalid_digests: the head of the outer loop for the next record,
\* with find_entries_by_digest
ImportInvalidDigestsNext(fail) ==
    /\ run.op = "import_invalid_digests" /\ run.pc = "loop"
    /\ LET expected_digest == DigestToString(Head(run.invalid_digests).expected)
           actual_digest == DigestToString(Head(run.invalid_digests).actual)
           rest == Tail(run.invalid_digests)
           entries == find_entries_by_digest(db, expected_digest)
       IN IF ShouldImport(expected_digest, actual_digest)
          THEN IF fail THEN run' = [run EXCEPT !.pc = "err"]
               ELSE run' = [run EXCEPT !.invalid_digests = rest,
                                       !.actual_digest = actual_digest,
                                       !.entries = entries,
                                       !.pc = IF entries # {} THEN "entries"
                                              ELSE IF rest = <<>> THEN "ok" ELSE "loop"]
          ELSE run' = [run EXCEPT !.invalid_digests = rest,
                                  !.pc = IF rest = <<>> THEN "ok" ELSE "loop"]
    /\ UNCHANGED <<db, tx, nruns, success_log, not_tx_vars>>

\* import_invalid_digests: one round of the inner loop
ImportInvalidDigestsStep(entry_id, fail) ==
    /\ run.op = "import_invalid_digests" /\ run.pc = "entries"
    /\ entry_id \in run.entries
    /\ LET rest == run.entries \ {entry_id}
       IN IF fail THEN RunFailed
          ELSE /\ RunInsertEntrySuccess(entry_id, run.actual_digest, FALSE)
               /\ run' = [run EXCEPT !.entries = rest,
                                     !.pc = IF rest # {} THEN "entries"
                                            ELSE IF run.invalid_digests = <<>> THEN "ok"
                                            ELSE "loop"]
    /\ UNCHANGED <<tx, nruns, not_tx_vars>>

\* db::entry::insert between two runs, as import_cdx_store calls it for one
\* entry
ImportEntry(entry) ==
    /\ Finished
    /\ Cardinality(db.entry) < MaxEntries
    /\ db' = insert(db, entry).db
    /\ UNCHANGED <<tx, run, nruns, success_log, not_tx_vars>>

\* ItemStore::save by the downloader, without read errors
DownloaderSave ==
    \/ \E content \in SavedContents : SaveStart(1, compute_digest(content), <<0>>, NoFail)
    \/ SaveCreateDirAll(1)
    \/ SaveFileCreate(1)
    \/ SaveCopy(1)
    \/ SaveFinish(1)
    \/ SaveReturn(1)

\* The entries the running loop has still to visit.
RunEntries ==
    IF run.op \in {"find_local_snapshots", "import_invalid_digests"} THEN run.entries ELSE {}

NextSnapshots ==
    \/ \E entry \in SnapshotEntries : ImportEntry(entry)
    \/ DownloaderSave
    \/ \E fail \in BOOLEAN : FindLocalSnapshotsStart("text/html", fail)
    \/ \E entry \in RunEntries, fail \in BOOLEAN : FindLocalSnapshotsStep(entry, fail)
    \/ \E invalid_digests \in SeqsUpTo(InvalidDigests, MaxInvalid) :
          ImportInvalidDigestsStart(invalid_digests)
    \/ \E fail \in BOOLEAN : ImportInvalidDigestsNext(fail)
    \/ \E entry_id \in RunEntries, fail \in BOOLEAN : ImportInvalidDigestsStep(entry_id, fail)

\* The rows an entry_success row references.
EntryOf(r) == {e \in db.entry : e.id = r.entry_id}
SnapshotOf(r) == {u \in db.snapshot : u.id = r.snapshot_id}

\* C16: every entry_success row references an entry and a snapshot; with
\* correct_digest the snapshot's digest is the entry's digest, and without it
\* the snapshot's digest differs from the entry's digest and its blob was in
\* the item store when the row was inserted.
C16_SuccessDigests ==
    \A r \in db.entry_success :
        /\ EntryOf(r) # {} /\ SnapshotOf(r) # {}
        /\ \A e \in EntryOf(r), u \in SnapshotOf(r) :
              IF r.correct_digest
              THEN u.digest = e.digest
              ELSE /\ u.digest # e.digest
                   /\ \E l \in success_log : l.id = r.id /\ l.present

\* C16 witness: the runs have made a row of each kind.
C16_Witness ==
    /\ \E r \in db.entry_success : r.correct_digest
    /\ \E r \in db.entry_success : ~r.correct_digest
    /\ Finished


(***************************************************************************)
(* ItemStore::save_all: stream::iter(items).map_ok(spawn a save)           *)
(* .try_buffer_unordered(parallelism), polled by its consumer.  A spawned  *)
(* task runs on the runtime whether or not the stream is polled.           *)
(***************************************************************************)
\* ItemStore::save as one step: the file system it leaves and its result.
save(digest, reader, fail_at) ==
    LET loc == location(digest)
    IN IF loc = None THEN [fs |-> fs, result |-> Result("InvalidDigest", 0)]
       ELSE IF exists(loc[1]) THEN [fs |-> fs, result |-> Result("None", 0)]
       ELSE LET path == loc[1]
                dirs == CreateDirAll(Parent(path))
                copied == Min(Len(reader), fail_at)
                WithFile(bytes) ==
                    [q \in DOMAIN dirs \cup {path} |->
                        IF q = path THEN FileNode(bytes) ELSE dirs[q]]
            IN IF CreateDirAllFails(Parent(path))
               THEN [fs |-> dirs, result |-> Result("Io", 0)]
               ELSE IF fail_at <= Len(reader)
               THEN [fs |-> WithFile(IF copied = 0 THEN <<>>
                                     ELSE <<ZstdMagic>> \o SubSeq(reader, 1, copied)),
                     result |-> Result("ImportIo", 0)]
               ELSE [fs |-> WithFile(ZstdEncode(reader)),
                     result |-> Result("Some", Len(reader))]

\* The items of the iterator: an Err, or Ok((digest, path)) where the file at
\* `path` is missing (source = None) or is the gzip of a content.
SaveAllItems ==
    {[ok |-> FALSE]} \cup
    [ok : {TRUE},
     digest : {compute_digest(<<0>>), SubSeq(compute_digest(<<0>>), 1, DigestLen - 1)},
     source : {None, Some(<<0>>)}]

\* The queue of try_buffer_unordered takes futures while it holds fewer than
\* its bound.  What a bound of 0 means is the library's choice: in one no
\* future is ever taken, in the other the queue has no bound.
Unbounded == MaxItems + 1
QueueBounds(n) == IF n = 0 THEN {0, Unbounded} ELSE {n}

NoStream ==
    [pc |-> "idle", parallelism |-> 1, max |-> 1, input |-> <<>>, next |-> 1,
     running |-> {}, completed |-> <<>>, ready |-> {}, emitted |-> <<>>]

\* ItemStore::save_all(items, parallelism)
SaveAllStart(items, n, max) ==
    /\ save_all.pc = "idle"
    /\ StoreQuiet
    /\ max \in QueueBounds(n)
    /\ save_all' = [NoStream EXCEPT !.pc = "running", !.parallelism = n, !.max = max,
                                    !.input = items]
    /\ UNCHANGED <<store_vars, not_save_all_vars>>

\* The futures in the queue: running or with their result not yet yielded.
InProgress == Cardinality(save_all.running) + Cardinality(save_all.ready)

\* Mutant of QueueHasRoom: the queue takes every future.
QueueHasRoomAlways == TRUE

\* try_buffer_unordered(parallelism): the queue is below its bound.
QueueHasRoom == InProgress < save_all.max

\* A poll takes the next item while the queue is below its bound: an Err is
\* yielded at once, an Ok is mapped to a spawned task.
SaveAllPull ==
    /\ save_all.pc = "running"
    /\ save_all.next <= Len(save_all.input)
    /\ QueueHasRoom
    /\ LET k == save_all.next
       IN save_all' =
            IF save_all.input[k].ok
            THEN [save_all EXCEPT !.next = k + 1, !.running = @ \cup {k}]
            ELSE [save_all EXCEPT !.next = k + 1,
                                  !.emitted = Append(@, [item |-> k, result |-> Result("Err", 0)])]
    /\ UNCHANGED <<store_vars, not_save_all_vars>>

\* The spawned task of item k runs: File::open, GzDecoder, store.save.
SaveAllTask(k) ==
    /\ save_all.pc = "running"
    /\ k \in save_all.running
    /\ LET item == save_all.input[k]
           r == IF item.source = None
                THEN [fs |-> fs, result |-> Result("Io", 0)]
                ELSE save(item.digest, item.source[1], NoFail)
       IN /\ fs' = r.fs
          /\ save_all' = [save_all EXCEPT !.running = @ \ {k},
                                          !.completed = Append(@, k),
                                          !.ready = @ \cup {[item |-> k, result |-> r.result]}]
    /\ UNCHANGED <<save_task, nsaves, saved, altered, entries_pc, parallelism, files_iter,
                   in_flight, emitted, empty_input_decodes, not_save_all_vars>>

\* A poll yields the result of a task it finds complete.  The queue polls
\* a future first in the order of the spawns and later in the order of the
\* wake-ups, so of two complete tasks either can be found first.
SaveAllYield(r) ==
    /\ save_all.pc = "running"
    /\ r \in save_all.ready
    /\ save_all' = [save_all EXCEPT !.ready = @ \ {r}, !.emitted = Append(@, r)]
    /\ UNCHANGED <<store_vars, not_save_all_vars>>

\* A poll finds the iterator at its end and the queue empty.  The iterator is
\* only asked while the queue is below its bound.
SaveAllEnd ==
    /\ save_all.pc = "running"
    /\ save_all.next > Len(save_all.input)
    /\ InProgress = 0
    /\ save_all.max > 0
    /\ save_all' = [save_all EXCEPT !.pc = "done"]
    /\ UNCHANGED <<store_vars, not_save_all_vars>>

NextSaveAll ==
    \/ \E items \in SeqsUpTo(SaveAllItems, MaxItems), n \in 0..MaxParallelism :
          \E max \in QueueBounds(n) : SaveAllStart(items, n, max)
    \/ SaveAllPull
    \/ \E k \in 1..MaxItems : SaveAllTask(k)
    \/ \E r \in save_all.ready : SaveAllYield(r)
    \/ SaveAllEnd

\* The consumer polls the stream until it ends, and the runtime runs every
\* spawned task.
SaveAllFairness ==
    /\ WF_vars(SaveAllPull)
    /\ WF_vars(\E k \in 1..MaxItems : SaveAllTask(k))
    /\ WF_vars(\E r \in save_all.ready : SaveAllYield(r))
    /\ WF_vars(SaveAllEnd)

\* The result of a save_all item is of the kind its input allows.
ResultFits(item, result) ==
    IF item.ok
    THEN result.kind \in {"Some", "None", "InvalidDigest", "Io", "ImportIo"}
    ELSE result.kind = "Err"

\* The position of item k in the order of completion.
CompletedAt(k) == CHOOSE i \in 1..Len(save_all.completed) : save_all.completed[i] = k

\* What save_all has yielded so far: at most one result per input item, each
\* fitting its item and, for a save, yielded after the save completed; never
\* more saves unfinished than `parallelism`; and at the end of the stream a
\* result for every item.
SaveAllSafe ==
    /\ Cardinality(save_all.running) <= save_all.parallelism
    /\ \A i, j \in 1..Len(save_all.emitted) :
          i # j => save_all.emitted[i].item # save_all.emitted[j].item
    /\ \A i \in 1..Len(save_all.emitted) :
          /\ save_all.emitted[i].item \in 1..Len(save_all.input)
          /\ ResultFits(save_all.input[save_all.emitted[i].item], save_all.emitted[i].result)
          /\ save_all.input[save_all.emitted[i].item].ok =>
                \E c \in 1..Len(save_all.completed) :
                    save_all.completed[c] = save_all.emitted[i].item
    /\ save_all.pc = "done" => Len(save_all.emitted) = Len(save_all.input)

\* The results of the saves are yielded in the order in which the saves
\* completed.
InCompletionOrder ==
    \A i, j \in 1..Len(save_all.emitted) :
        /\ i < j
        /\ save_all.input[save_all.emitted[i].item].ok
        /\ save_all.input[save_all.emitted[j].item].ok
        => CompletedAt(save_all.emitted[i].item) < CompletedAt(save_all.emitted[j].item)

\* C20 as stated: for every parallelism, save_all yields one result for each
\* input item, in completion order, with at most `parallelism` saves
\* unfinished at any time, and the stream ends.
C20_OneResultPerInput ==
    /\ [](SaveAllSafe /\ InCompletionOrder)
    /\ (save_all.pc = "running" ~> save_all.pc = "done")

\* C20 amended: for parallelism >= 1, save_all yields one result for each
\* input item, a save's result after the save has completed, with at most
\* `parallelism` saves unfinished at any time, and the stream ends.
C20_OneResultPerInputPositive ==
    /\ [](save_all.parallelism >= 1 => SaveAllSafe)
    /\ ((save_all.pc = "running" /\ save_all.parallelism >= 1) ~> save_all.pc = "done")

\* C20 witness: with parallelism 1 and two saves, the stream has ended with
\* both results, after the second save had to wait for the first.
C20_Witness ==
    /\ save_all.pc = "done"
    /\ save_all.parallelism = 1
    /\ Len(save_all.input) = 2
    /\ \A k \in 1..2 : save_all.input[k].ok
    /\ Len(save_all.emitted) = 2
    /\ \E i \in 1..2 : save_all.emitted[i].result.kind = "Some"


(***************************************************************************)
(* Manager::index and Manager::search (manager/src/lib.rs, search.rs,      *)
(* db/mod.rs; the query of indexer/src/lib.rs).  The files of the          *)
(* snapshots are in the store and decode, and the limit of a search is at  *)
(* least the number of SURTs that match, so the collector returns all of   *)
(* them.  The runs come in the order of the manager's commands: the        *)
(* catalog is filled by imports and downloads, then it is indexed, then it *)
(* is searched; a search result is held until its caller drops it, so a    *)
(* result can be compared with the catalog it was computed from.           *)
(***************************************************************************)
\* The CDX entries of these runs: captures of the SURTs at the timestamps.
CaptureEntries ==
    [key : SurtKeys, timestamp : 1..MaxTimestamp, original : {"https://test.com/"},
     mime_type : {"text/html"}, status_code : {Some(200)},
     digest : {<<"D", 1>>}, length : {1}]

CaptureConfigs == [pattern : Patterns, entries : {<<e>> : e \in CaptureEntries}]

\* import_cdx_store: the loop over the entries
RECURSIVE import_entries(_, _, _)
import_entries(d, pattern_id, entries) ==
    IF entries = <<>> THEN d
    ELSE LET e == insert(d, Head(entries))
         IN import_entries(insert_pattern_entry(e.db, pattern_id, e.id),
                           pattern_id, Tail(entries))

\* import_cdx_store: the transaction as a whole
import_cdx_store(d, config) ==
    LET p == pattern_insert(d, config.pattern)
    IN import_entries(p.db, p.id, config.entries)

\* DateTime::year
Year(timestamp) == 2015 + timestamp \div 2

\* The enumerations of a finite set.
Orders(S) ==
    {q \in [1..Cardinality(S) -> S] : \A x \in S : \E i \in 1..Cardinality(S) : q[i] = x}

\* The rows of a SELECT in the order of its ORDER BY columns; rows that
\* agree on them come in any order.
Sorted(S, Less(_, _)) ==
    {q \in Orders(S) : \A i, j \in 1..Len(q) : i < j => ~Less(q[j], q[i])}

\* Db::get_snapshot_info
get_snapshot_info(d, mime_type) ==
    LET rows == {[snapshot_id |-> sn.id, surt_id |-> e.surt_id, pattern_slug |-> p.slug,
                  digest |-> sn.digest, timestamp |-> e.ts, rowid |-> <<r.id, pe.rowid>>] :
                    <<sn, r, e, pe, p>> \in
                        {t \in d.snapshot \X d.entry_success \X d.entry \X d.pattern_entry
                                \X d.pattern :
                            /\ t[2].snapshot_id = t[1].id
                            /\ t[3].id = t[2].entry_id
                            /\ t[4].entry_id = t[3].id
                            /\ t[5].id = t[4].pattern_id
                            /\ t[3].mime_type = mime_type}}
        Less(a, b) == \/ a.snapshot_id < b.snapshot_id
                      \/ a.snapshot_id = b.snapshot_id /\ a.timestamp < b.timestamp
    IN Sorted(rows, Less)

\* Index::add_document
add_document(snapshot_id, surt_id, pattern_slug, timestamp) ==
    [snapshot_id |-> snapshot_id, surt_id |-> surt_id, pattern |-> pattern_slug,
     year |-> Year(timestamp), timestamp |-> timestamp]

\* Manager::index: group_by snapshot_id, group.next()
FirstOfGroups(rows) ==
    {i \in 1..Len(rows) : i = 1 \/ rows[i - 1].snapshot_id # rows[i].snapshot_id}

\* Manager::index
Index(mime_type) ==
    /\ search_result = None
    /\ \E rows \in get_snapshot_info(db, mime_type) :
          index_docs' = index_docs \cup
              {add_document(rows[i].snapshot_id, rows[i].surt_id, rows[i].pattern_slug,
                            rows[i].timestamp) : i \in FirstOfGroups(rows)}
    /\ index_docs' # index_docs
    /\ UNCHANGED <<search_result, not_search_vars>>

\* indexer Range: Start, End, Both
RangeStart(range) == IF range.kind \in {"Start", "Both"} THEN Some(range.start) ELSE None
RangeEnd(range) == IF range.kind \in {"End", "Both"} THEN Some(range.end) ELSE None

\* i64::MIN and i64::MAX (tantivy::DateTime::MIN and MAX) at the width of
\* the integers of the model: below and above every timestamp.
TIMESTAMP_MIN == -2147483647
TIMESTAMP_MAX == 2147483647

\* Range::bounds: (Included, Excluded)
RangeBounds(range) ==
    [lower |-> IF RangeStart(range) = None THEN TIMESTAMP_MIN ELSE range.start,
     upper |-> IF RangeEnd(range) = None THEN TIMESTAMP_MAX ELSE range.end]

DateRanges ==
    {None, Some([kind |-> "Start", start |-> MaxTimestamp]),
           Some([kind |-> "End", end |-> MaxTimestamp]),
           Some([kind |-> "Both", start |-> 1, end |-> MaxTimestamp])}

\* Query; its content is the set of documents the content query matches.
Queries ==
    [date_range : DateRanges,
     pattern_slugs : {None, Some({<<"p", 1>>})},
     years : {None, Some({Year(MaxTimestamp)})}]

\* Index::to_tantivy_query: every part is a Must
Matches(query, content, doc) ==
    /\ doc \in content
    /\ query.date_range # None =>
          LET b == RangeBounds(query.date_range[1])
          IN b.lower <= doc.timestamp /\ doc.timestamp < b.upper
    /\ query.pattern_slugs # None => doc.pattern \in query.pattern_slugs[1]
    /\ query.years # None => doc.year \in query.years[1]

\* Db::get_snapshots: no ORDER BY, the rows come in any order
get_snapshots(d, snapshot_ids) ==
    Orders({[snapshot_id |-> r.snapshot_id, url |-> e.url, timestamp |-> e.ts,
             surt |-> [id |-> su.id, value |-> su.value], rowid |-> r.id] :
               <<r, e, su>> \in
                   {t \in d.entry_success \X d.entry \X d.surt :
                       /\ t[2].id = t[1].entry_id
                       /\ t[3].id = t[2].surt_id
                       /\ t[1].snapshot_id \in snapshot_ids}})

\* Db::get_surt_entries: AND entry.ts >= ? AND entry.ts < ?
InDateRange(date_range, ts) ==
    date_range # None =>
        LET b == RangeBounds(date_range[1]) IN b.lower <= ts /\ ts < b.upper

\* Db::get_surt_entries: surt_id -> the timestamps of its rows, ORDER BY entry.ts
get_surt_entries(d, surt_ids, date_range) ==
    LET rows == {[surt_id |-> e.surt_id, ts |-> e.ts, rowid |-> r.id] :
                    <<e, r>> \in {t \in d.entry \X d.entry_success :
                                    /\ t[2].entry_id = t[1].id
                                    /\ t[1].surt_id \in surt_ids
                                    /\ InDateRange(date_range, t[1].ts)}}
        Less(a, b) == a.ts < b.ts
        of(id) == {r \in rows : r.surt_id = id}
        sorted(id) == CHOOSE q \in Sorted(of(id), Less) : TRUE
    IN [id \in {r.surt_id : r \in rows} |->
            [i \in 1..Cardinality(of(id)) |-> sorted(id)[i].ts]]

\* Db::get_search_result: both queries in one transaction
get_search_result(d, date_range, snapshot_ids) ==
    {[snapshots |-> snapshots,
      surt_entries |-> get_surt_entries(d, {snapshots[i].surt.id : i \in 1..Len(snapshots)},
                                        date_range)] :
        snapshots \in get_snapshots(d, snapshot_ids)}

\* IndexMap::insert: a present key keeps its place, a new one goes last
IndexMapInsert(m, k, v) ==
    IF \E i \in 1..Len(m) : m[i].key = k
    THEN [i \in 1..Len(m) |-> IF m[i].key = k THEN [key |-> k, value |-> v] ELSE m[i]]
    ELSE Append(m, [key |-> k, value |-> v])

\* collect::<IndexMap<_, _>>() of the pairs (timestamp, None)
RECURSIVE CollectTimeline(_)
CollectTimeline(timestamps) ==
    IF timestamps = <<>> THEN <<>>
    ELSE IndexMapInsert(CollectTimeline(SubSeq(timestamps, 1, Len(timestamps) - 1)),
                        timestamps[Len(timestamps)], None)

\* Itertools::group_by: the runs of consecutive rows with the same SURT
RECURSIVE GroupBySurt(_)
GroupBySurt(rows) ==
    IF rows = <<>> THEN <<>>
    ELSE LET n == CHOOSE n \in 1..Len(rows) :
                      /\ \A i \in 1..n : rows[i].surt = rows[1].surt
                      /\ n = Len(rows) \/ rows[n + 1].surt # rows[1].surt
         IN <<[surt |-> rows[1].surt, group |-> SubSeq(rows, 1, n)]>>
                \o GroupBySurt(SubSeq(rows, n + 1, Len(rows)))

\* search: the loop over the rows of one group
RECURSIVE InsertHits(_, _, _)
InsertHits(surt_results, group, snapshot_map) ==
    IF group = <<>> THEN surt_results
    ELSE LET row == Head(group)
             hit == snapshot_map[row.snapshot_id]
         IN InsertHits(IndexMapInsert(surt_results, row.timestamp,
                           Some([pattern_slug |-> hit.pattern,
                                 url |-> [url |-> row.url, timestamp |-> row.timestamp]])),
                       Tail(group), snapshot_map)

\* search: the loop over the groups
RECURSIVE Assemble(_, _, _, _)
Assemble(surts, groups, surt_entries, snapshot_map) ==
    IF groups = <<>> THEN [status |-> "ok", surts |-> surts]
    ELSE LET g == Head(groups)
         IN IF g.surt.id \notin DOMAIN surt_entries
            THEN [status |-> "MissingSurtTimestamps", surts |-> <<>>]
            ELSE IF \E i \in 1..Len(g.group) : g.group[i].snapshot_id \notin DOMAIN snapshot_map
            THEN [status |-> "MissingSnapshot", surts |-> <<>>]
            ELSE Assemble(IndexMapInsert(surts, g.surt,
                              InsertHits(CollectTimeline(surt_entries[g.surt.id]),
                                         g.group, snapshot_map)),
                          Tail(groups), surt_entries, snapshot_map)

\* search (manager/src/search.rs)
ManagerSearch(query, content) ==
    /\ search_result = None
    /\ index_docs # {}
    /\ LET index_hits == {doc \in index_docs : Matches(query, content, doc)}
           snapshot_ids == {doc.snapshot_id : doc \in index_hits}
       IN \E snapshot_map \in {f \in [snapshot_ids -> index_hits] :
                                  \A id \in snapshot_ids : f[id].snapshot_id = id},
             result \in get_search_result(db, query.date_range, snapshot_ids) :
                LET out == Assemble(<<>>, GroupBySurt(result.snapshots),
                                    result.surt_entries, snapshot_map)
                IN search_result' = Some([query |-> query, matched |-> snapshot_ids,
                                          status |-> out.status, surts |-> out.surts])
    /\ UNCHANGED <<index_docs, not_search_vars>>

\* The caller drops the SearchResult.
SearchResultDrop ==
    /\ search_result # None
    /\ search_result' = None
    /\ UNCHANGED <<index_docs, not_search_vars>>

\* A run of import_cdx_store over a store with one capture
ImportCdxStore(config) ==
    /\ index_docs = {}
    /\ Cardinality(db.entry) < MaxCaptures
    /\ db' = import_cdx_store(db, config)
    /\ db' # db
    /\ UNCHANGED <<db_calls, not_db_vars>>

\* The downloader records the snapshot it saved for an entry.
DownloaderSuccess(entry_id, digest) ==
    /\ index_docs = {}
    /\ Cardinality(db.entry_success) < MaxCaptures
    /\ \E e \in db.entry : e.id = entry_id
    /\ db' = insert_entry_success(db, entry_id, digest, TRUE, 1).db
    /\ db' # db
    /\ UNCHANGED <<db_calls, not_db_vars>>

NextManagerSearch ==
    \/ \E config \in CaptureConfigs : ImportCdxStore(config)
    \/ \E entry_id \in 1..MaxCaptures, digest \in DbDigests :
          DownloaderSuccess(entry_id, digest)
    \/ Index("text/html")
    \/ \E query \in Queries, content \in SUBSET index_docs : ManagerSearch(query, content)
    \/ SearchResultDrop

(***************************************************************************)
(* Manager search claims.                                                  *)
(***************************************************************************)
\* The captures of a SURT: its entries with an entry_success row.
Captures(surt_id) ==
    {c \in db.entry \X db.entry_success : c[1].surt_id = surt_id /\ c[2].entry_id = c[1].id}

\* C11: in the SearchResult of a manager search, the map of each returned
\* SURT has as keys exactly the timestamps of the entry_success captures of
\* that SURT inside the query's date_range (all of them without a date
\* range), in ascending order, and a key maps to Some(Hit) iff the snapshot
\* of a capture at that timestamp matched the query; the year and pattern
\* filters remove no timestamp.
C11_TimelineOfCaptures ==
    (search_result # None /\ search_result[1].status = "ok") =>
        LET r == search_result[1]
        IN \A i \in 1..Len(r.surts) :
              LET m == r.surts[i].value
                  captures == Captures(r.surts[i].key.id)
              IN /\ {m[j].key : j \in 1..Len(m)} =
                        {c[1].ts : c \in {x \in captures :
                                            InDateRange(r.query.date_range, x[1].ts)}}
                 /\ \A j, k \in 1..Len(m) : j < k => m[j].key < m[k].key
                 /\ \A j \in 1..Len(m) :
                        m[j].value # None <=>
                            \E c \in captures : /\ c[1].ts = m[j].key
                                                /\ c[2].snapshot_id \in r.matched


\* C27: once Manager::index has run, the index holds one document for each
\* (snapshot_id, surt_id, pattern, timestamp) combination among the
\* successful entries of the MIME type, so a snapshot captured under two
\* SURTs or at two timestamps has two documents.
C27_OneDocumentPerCapture ==
    index_docs # {} =>
        \A rows \in get_snapshot_info(db, "text/html") :
            \A i \in 1..Len(rows) :
                add_document(rows[i].snapshot_id, rows[i].surt_id, rows[i].pattern_slug,
                             rows[i].timestamp) \in index_docs


(***************************************************************************)
(* Digest::from_str and Digest's Display (core/src/digest.rs) as calls.    *)
(***************************************************************************)
\* The characters the strings end in: symbols, the padding and others.
DigestTails == {"A", "B", "7", "a", "1", "=", "."}

\* The strings handed to from_str: runs of "A" of 31 to 33 characters that
\* end in DigestTailLen characters of DigestTails.
DigestStrings ==
    {[i \in 1..n |-> IF i <= n - DigestTailLen THEN "A" ELSE tail[i - (n - DigestTailLen)]] :
        n \in (DigestLen - 1)..(DigestLen + 1), tail \in [1..DigestTailLen -> DigestTails]}

\* s.parse::<Digest>()
DigestParse(s) ==
    /\ call' = [fn |-> "from_str", arg |-> s]
    /\ returned' = DigestFromStr(s)
    /\ UNCHANGED not_call_vars

\* digest.to_string() of the Digest just parsed
DigestDisplay ==
    /\ call # None /\ call.fn = "from_str" /\ returned # None
    /\ call' = [fn |-> "to_string", arg |-> call.arg, digest |-> returned[1]]
    /\ returned' = Some(DigestToString(returned[1]))
    /\ UNCHANGED not_call_vars

NextDigest ==
    \/ \E s \in DigestStrings : DigestParse(s)
    \/ DigestDisplay

\* C30: parsing a Digest never fails: a 32-character string of Base32
\* symbols becomes Valid, every other string becomes Invalid and holds the
\* string verbatim, and to_string of an Invalid digest is the input.
C30_ParseNeverFails ==
    /\ (call # None /\ call.fn = "from_str") =>
          /\ returned # None
          /\ returned[1].valid <=> is_valid_digest(call.arg)
          /\ ~returned[1].valid => returned[1].value = call.arg
    /\ (call # None /\ call.fn = "to_string" /\ ~call.digest.valid) =>
          returned[1] = call.arg


(***************************************************************************)
(* list_missing_snapshots (manager/src/import/mod.rs).  A list is held     *)
(* until its caller drops it and the catalog is left alone meanwhile.      *)
(***************************************************************************)
\* URLs as character sequences: a short one that sorts last, a short and a
\* long one that sort first.
Urls == {<<"z">>, <<"a">>, <<"a", "t">>}

\* The CDX entries of these catalogs.
ListedEntries ==
    [key : {<<"com", 1>>}, timestamp : 1..MaxTimestamp, original : Urls,
     mime_type : {"text/html"}, status_code : {Some(200)},
     digest : {compute_digest(c) : c \in SavedContents}, length : {1}]

\* Ordering of sequences of integers ([u8; 20]::cmp on the 5-bit groups).
GroupsLess(a, b) ==
    \/ \E i \in 1..Min(Len(a), Len(b)) :
          /\ \A j \in 1..(i - 1) : a[j] = b[j]
          /\ a[i] < b[i]
    \/ Len(a) < Len(b) /\ SubSeq(b, 1, Len(a)) = a

\* Digest's derived Ord: Valid before Invalid, then the content
DigestLess(a, b) ==
    \/ a.valid /\ ~b.valid
    \/ a.valid /\ b.valid /\ GroupsLess(a.value, b.value)
    \/ ~a.valid /\ ~b.valid /\ NameLess(a.value, b.value)

\* EntryInfo's derived Ord: url, timestamp, expected_digest
EntryInfoLess(a, b) ==
    \/ NameLess(a.url_parts.url, b.url_parts.url)
    \/ /\ a.url_parts.url = b.url_parts.url
       /\ \/ a.url_parts.timestamp < b.url_parts.timestamp
          \/ /\ a.url_parts.timestamp = b.url_parts.timestamp
             /\ DigestLess(a.expected_digest, b.expected_digest)

\* The key of sort_by_key: (expected_digest, url.len(), timestamp)
SortKeyLess(a, b) ==
    \/ DigestLess(a.expected_digest, b.expected_digest)
    \/ /\ a.expected_digest = b.expected_digest
       /\ \/ Len(a.url_parts.url) < Len(b.url_parts.url)
          \/ /\ Len(a.url_parts.url) = Len(b.url_parts.url)
             /\ a.url_parts.timestamp < b.url_parts.timestamp

\* slice::sort_by_key and slice::sort: stable, equal elements keep their order
StableSort(values, Less(_, _)) ==
    LET rank(i) == Cardinality({j \in 1..Len(values) :
                        \/ Less(values[j], values[i])
                        \/ ~Less(values[i], values[j]) /\ j < i})
    IN [k \in 1..Len(values) |-> values[CHOOSE i \in 1..Len(values) : rank(i) = k - 1]]

\* group_by expected_digest, group.next()
FirstOfDigestGroups(values) ==
    LET firsts == {i \in 1..Len(values) :
                      i = 1 \/ values[i - 1].expected_digest # values[i].expected_digest}
        nth(k) == CHOOSE i \in firsts : Cardinality({j \in firsts : j < i}) = k - 1
    IN [k \in 1..Cardinality(firsts) |-> values[nth(k)]]

\* The rows of db::entry::missing_entries, which come in any order.
MissingRows(d, mime_type) ==
    {e \in d.entry :
        /\ e.mime_type = mime_type
        /\ ~\E r \in d.entry_success : r.entry_id = e.id
        /\ e.status_code \in {None, Some(200)}
        /\ \E u \in d.surt : u.id = e.surt_id}

\* list_missing_snapshots on the rows in one of their orders
list_missing_snapshots(rows) ==
    IF \E i \in 1..Len(rows) : DigestFromStr(rows[i].digest) = None
    THEN [kind |-> "Err", values |-> <<>>]
    ELSE LET values == [i \in 1..Len(rows) |->
                           [url_parts |-> [url |-> rows[i].url, timestamp |-> rows[i].ts],
                            expected_digest |-> DigestFromStr(rows[i].digest)[1]]]
         IN [kind |-> "Ok",
             values |-> StableSort(FirstOfDigestGroups(StableSort(values, SortKeyLess)),
                                   EntryInfoLess)]

\* A call of list_missing_snapshots
ListMissingSnapshots(mime_type) ==
    /\ call = None
    /\ db.entry # {}
    /\ \E rows \in Orders(MissingRows(db, mime_type)) :
          /\ call' = [fn |-> "list_missing_snapshots", arg |-> mime_type]
          /\ returned' = list_missing_snapshots(rows)
    /\ UNCHANGED not_call_vars

\* The caller drops the list.
ListDrop ==
    /\ call # None
    /\ call' = None
    /\ returned' = None
    /\ UNCHANGED not_call_vars

\* db::entry::insert of an import
ListedInsert(entry) ==
    /\ call = None
    /\ Cardinality(db.entry) < MaxListed
    /\ db' = insert(db, entry).db
    /\ db' # db
    /\ UNCHANGED <<db_calls, not_db_vars>>

\* The downloader records the snapshot it saved for an entry.
ListedSuccess(entry_id) ==
    /\ call = None
    /\ \E e \in db.entry :
          /\ e.id = entry_id
          /\ db' = insert_entry_success(db, entry_id, e.digest, TRUE, 1).db
    /\ db' # db
    /\ UNCHANGED <<db_calls, not_db_vars>>

NextListMissing ==
    \/ \E entry \in ListedEntries : ListedInsert(entry)
    \/ \E entry_id \in 1..MaxListed : ListedSuccess(entry_id)
    \/ ListMissingSnapshots("text/html")
    \/ ListDrop

\* The digests of the entries that missing_entries selects.
MissingDigests == {e.digest : e \in MissingRows(db, "text/html")}

Listed == call # None /\ call.fn = "list_missing_snapshots" /\ returned.kind = "Ok"

\* list_missing_snapshots returns one EntryInfo for each distinct digest
\* among missing_entries: an entry of that digest with the shortest URL and,
\* among those, the earliest timestamp; the list is sorted.
OnePerMissingDigest ==
    Listed =>
        LET l == returned.values
        IN /\ {DigestToString(l[i].expected_digest) : i \in 1..Len(l)} = MissingDigests
           /\ \A i, j \in 1..Len(l) : i < j => EntryInfoLess(l[i], l[j])
           /\ \A i, j \in 1..Len(l) :
                 i # j => l[i].expected_digest # l[j].expected_digest
           /\ \A i \in 1..Len(l) :
                 \E e \in MissingRows(db, "text/html") :
                    /\ e.url = l[i].url_parts.url
                    /\ e.ts = l[i].url_parts.timestamp
                    /\ e.digest = DigestToString(l[i].expected_digest)
                    /\ \A o \in MissingRows(db, "text/html") :
                          o.digest = e.digest =>
                              \/ Len(e.url) < Len(o.url)
                              \/ Len(e.url) = Len(o.url) /\ e.ts <= o.ts

\* C23: list_missing_snapshots returns one EntryInfo per missing digest (the
\* shortest URL, then the earliest timestamp), sorted, and the list holds no
\* digest that has an entry_success.
C23_OnePerMissingDigest ==
    /\ OnePerMissingDigest
    /\ Listed =>
          \A i \in 1..Len(returned.values) :
              ~\E e \in db.entry, r \in db.entry_success :
                  /\ r.entry_id = e.id
                  /\ e.digest = DigestToString(returned.values[i].expected_digest)


(***************************************************************************)
(* Downloader::download (downloader/src/lib.rs): the attempts of one call  *)
(* under tokio_retry::RetryIf.                                             *)
(***************************************************************************)
MAX_RETRIES == 7

\* The status codes the archive answers with.
StatusCodesSeen == {200, 302, 403, 404, 429, 500, 503}

\* What one GET meets: send() fails, a 200 whose body can or cannot be read,
\* a 302 with no, an unparsable or a good Location, or another status.
Responses ==
    {[kind |-> "send_error"]}
        \cup {[kind |-> "ok", body_ok |-> b] : b \in BOOLEAN}
        \cup {[kind |-> "found", location |-> l] : l \in {"none", "bad", "good"}}
        \cup {[kind |-> "status", status |-> c] : c \in StatusCodesSeen \ {200, 302}}

\* What the GETs of one attempt meet, in order.
Scripts == SeqsUpTo(Responses, MaxRedirects + 1) \ {<<>>}

OkDownload(redirects) == [kind |-> "Ok", redirects |-> redirects]
ErrClient(is_body) == [kind |-> "Err", error |-> "Client", is_body |-> is_body, status |-> 0]
ErrStatus(status) ==
    [kind |-> "Err", error |-> "UnexpectedStatus", is_body |-> FALSE, status |-> status]
ErrOther(error) == [kind |-> "Err", error |-> error, is_body |-> FALSE, status |-> 0]

\* download_once over the responses of the script; None when the script ends
\* before the attempt does.
RECURSIVE download_once(_)
download_once(script) ==
    IF script = <<>> THEN None
    ELSE LET response == Head(script)
         IN CASE response.kind = "send_error" -> Some(ErrClient(FALSE))
              [] response.kind = "ok" ->
                    Some(IF response.body_ok THEN OkDownload(0) ELSE ErrClient(TRUE))
              [] response.kind = "found" /\ response.location = "none" ->
                    Some(ErrOther("UnexpectedRedirect"))
              [] response.kind = "found" /\ response.location = "bad" ->
                    Some(ErrOther("UnexpectedRedirectUrl"))
              [] response.kind = "found" /\ response.location = "good" ->
                    LET result == download_once(Tail(script))
                    IN IF result = None THEN None
                       ELSE IF result[1].kind = "Ok"
                       THEN Some(OkDownload(result[1].redirects + 1))
                       ELSE result
              [] response.kind = "status" -> Some(ErrStatus(response.status))

\* StatusCode::is_server_error
is_server_error(status) == 500 <= status /\ status <= 599

\* download: the condition of RetryIf
ShouldRetry(error) ==
    \/ error.error = "UnexpectedStatus" /\ error.status = 429
    \/ error.error = "UnexpectedStatus" /\ is_server_error(error.status)
    \/ error.error = "Client" /\ error.is_body
    \/ error.error = "Client"

\* Mutant of Strategy: one delay more.
StrategyOneMore == MAX_RETRIES + 1

\* download: the number of delays of strategy, .take(MAX_RETRIES)
Strategy == MAX_RETRIES

\* download: the match on the result of RetryIf
DownloadResult(result) ==
    IF result.kind = "Ok" THEN [kind |-> "Ok", value |-> Some(result)]
    ELSE IF result.error = "UnexpectedStatus" /\ result.status = 404
    THEN [kind |-> "Ok", value |-> None]
    ELSE [kind |-> "Err", value |-> result]

\* A call of download
DownloadStart ==
    /\ call = None
    /\ call' = [fn |-> "download", pc |-> "running", count |-> 0, strategy |-> Strategy,
                last |-> None]
    /\ returned' = None
    /\ UNCHANGED not_call_vars

\* RetryIf: one run of the action (count += 1; download_once), then the
\* result, the condition and the next delay of the strategy
DownloadAttempt(script) ==
    /\ call # None /\ call.fn = "download" /\ call.pc = "running"
    /\ download_once(script) # None
    /\ LET result == download_once(script)[1]
           retry == result.kind = "Err" /\ ShouldRetry(result) /\ call.strategy > 0
       IN /\ call' = [call EXCEPT !.count = @ + 1,
                                  !.last = Some(result),
                                  !.pc = IF retry THEN "sleeping" ELSE "done",
                                  !.strategy = IF retry THEN @ - 1 ELSE @]
          /\ returned' = IF retry THEN None ELSE Some(DownloadResult(result))
    /\ UNCHANGED not_call_vars

\* RetryIf: the sleep is over
DownloadWake ==
    /\ call # None /\ call.fn = "download" /\ call.pc = "sleeping"
    /\ call' = [call EXCEPT !.pc = "running"]
    /\ UNCHANGED <<returned, not_call_vars>>

\* The caller takes the result.
DownloadReturn ==
    /\ call # None /\ call.fn = "download" /\ call.pc = "done"
    /\ call' = None
    /\ returned' = None
    /\ UNCHANGED not_call_vars

NextDownload ==
    \/ DownloadStart
    \/ \E script \in Scripts : DownloadAttempt(script)
    \/ DownloadWake
    \/ DownloadReturn

Downloading == call # None /\ call.fn = "download"

\* The attempt made last failed with an error of the kinds the spec retries.
LastRetryable ==
    /\ call.last # None
    /\ call.last[1].kind = "Err"
    /\ ShouldRetry(call.last[1])

\* C24: download makes at most 7 attempts for one request.
C24_AtMostSevenAttempts == Downloading => call.count <= 7

\* C24 (amended): download makes at most MAX_RETRIES + 1 = 8 attempts, the
\* first one and 7 retries: it sleeps only after fewer than 8 attempts, and
\* when the last attempt fails with an error that is retried the call ends
\* after the 8th attempt and returns that error.
C24_AtMostEightAttempts ==
    Downloading =>
        /\ call.count <= MAX_RETRIES + 1
        /\ call.pc = "sleeping" => call.count <= MAX_RETRIES
        /\ (call.pc = "done" /\ LastRetryable) =>
              /\ call.count = MAX_RETRIES + 1
              /\ returned = Some([kind |-> "Err", value |-> call.last[1]])

C24_Witness ==
    /\ Downloading /\ call.pc = "done" /\ LastRetryable
    /\ call.count = 8
    /\ returned # None /\ returned[1].kind = "Err"

\* C25: an attempt that receives 404 ends the call with Ok(None) and no
\* retry; an attempt that receives another status that is not 200, 302, 429
\* or 5xx, or that fails otherwise than by a body-read error, ends the call
\* with Err and no retry.
C25_FatalWithoutRetry ==
    (Downloading /\ call.last # None /\ call.last[1].kind = "Err") =>
        LET e == call.last[1]
        IN /\ (e.error = "UnexpectedStatus" /\ e.status = 404) =>
                 call.pc = "done" /\ returned = Some([kind |-> "Ok", value |-> None])
           /\ \/ e.error = "UnexpectedStatus" /\ e.status # 404 /\ e.status # 429
                    /\ ~is_server_error(e.status)
              \/ e.error = "Client" /\ ~e.is_body
              \/ e.error \in {"UnexpectedRedirect", "UnexpectedRedirectUrl"}
              => call.pc = "done" /\ returned = Some([kind |-> "Err", value |-> e])


(***************************************************************************)
(* The indexer's Index (indexer/src/lib.rs): add_document, commit_writer,  *)
(* the reader's reload, initialize_surt_ids and search.  A segment is the  *)
(* sequence of the SURT ids of its documents; every commit of a non-empty  *)
(* writer makes one segment.                                               *)
(***************************************************************************)
NumIndexedDocs ==
    Len(index_state.writer) + Len(ConcatAll(index_state.committed))

\* Index::add_document: into the writer, not yet in the index
AddDocument(surt_id) ==
    /\ NumIndexedDocs < MaxIndexedDocs
    /\ index_state' = [index_state EXCEPT !.writer = Append(@, surt_id)]
    /\ UNCHANGED not_index_vars

\* Index::commit_writer: the reader is not reloaded by the commit itself
CommitWriter ==
    /\ index_state.initialized \/ index_state.writer # <<>>
    /\ index_state' = [index_state EXCEPT
            !.committed = IF index_state.writer = <<>> THEN @
                          ELSE Append(@, index_state.writer),
            !.writer = <<>>,
            !.initialized = FALSE]
    /\ UNCHANGED not_index_vars

\* ReloadPolicy::OnCommit: the reader loads the last commit some time after
\* the commit was made
ReaderReload ==
    /\ index_state.searcher # index_state.committed
    /\ index_state' = [index_state EXCEPT !.searcher = index_state.committed]
    /\ UNCHANGED not_index_vars

\* The DocAddresses of the documents a searcher sees.
DocAddresses(segments) ==
    {<<segment_ord_, doc_id>> \in (0..MaxIndexedDocs) \X (0..MaxIndexedDocs) :
        /\ segment_ord_ < Len(segments)
        /\ doc_id < Len(segments[segment_ord_ + 1])}

\* Index::initialize_surt_ids
InitializeSurtIds ==
    /\ index_state' = [index_state EXCEPT
            !.surt_ids = Some([a \in DocAddresses(index_state.searcher) |->
                                  index_state.searcher[a[1] + 1][a[2] + 1]]),
            !.initialized = TRUE]
    /\ UNCHANGED not_index_vars

\* Index::search: surt_ids.as_ref().unwrap(), then collect of every
\* matching document: surt_map.get(&doc_address).unwrap()
IndexSearch(matching) ==
    /\ matching \subseteq DocAddresses(index_state.searcher)
    /\ index_state' = [index_state EXCEPT !.search =
            Some([initialized |-> index_state.initialized,
                  status |-> IF index_state.surt_ids = None THEN "panicked"
                             ELSE IF \E a \in matching : a \notin DOMAIN index_state.surt_ids[1]
                             THEN "panicked"
                             ELSE "ok"])]
    /\ UNCHANGED not_index_vars

NextIndex ==
    \/ \E surt_id \in 1..NumKeys : AddDocument(surt_id)
    \/ CommitWriter
    \/ ReaderReload
    \/ InitializeSurtIds
    \/ \E matching \in SUBSET DocAddresses(index_state.searcher) : IndexSearch(matching)

\* C26: a search made after initialize_surt_ids was called since the most
\* recent commit_writer finds a SURT id for every document it collects and
\* does not abort on a missing map or map entry.
C26_InitializedSearchCompletes ==
    (index_state.search # None /\ index_state.search[1].initialized) =>
        index_state.search[1].status = "ok"


(***************************************************************************)
(* run_import (manager/src/import/mod.rs) over CDX stores                  *)
(* (cdx-store/src/lib.rs) whose page files parse or do not.                *)
(***************************************************************************)
\* The entries of the pages.
PageEntries == {e \in TxEntries : e.status_code = Some(200)}

\* A page file of a store's data directory: an EntryList, or a file that
\* serde_json does not parse as one.
Pages == {[kind |-> "bad", values |-> <<>>]}
            \cup {[kind |-> "ok", values |-> <<e>>] : e \in PageEntries}

\* A PatternConfig with the page files of its store, in the order of their
\* names.
ImportConfigs == [pattern : Patterns, pages : SeqsUpTo(Pages, MaxPages) \ {<<>>}]

\* Store::entries: the entries of the pages, or None for the Err of the
\* first page that does not parse
RECURSIVE store_entries(_)
store_entries(pages) ==
    IF pages = <<>> THEN Some(<<>>)
    ELSE IF Head(pages).kind = "bad" THEN None
    ELSE LET rest == store_entries(Tail(pages))
         IN IF rest = None THEN None ELSE Some(Head(pages).values \o rest[1])

\* run_import: the loop over the configurations; import_cdx_store(..)? ends
\* it at the first error
RECURSIVE run_import(_, _)
run_import(d, configs) ==
    IF configs = <<>> THEN [db |-> d, kind |-> "Ok"]
    ELSE LET entries == store_entries(Head(configs).pages)
         IN IF entries = None THEN [db |-> d, kind |-> "Err"]
            ELSE run_import(import_cdx_store(d, [pattern |-> Head(configs).pattern,
                                                 entries |-> entries[1]]),
                            Tail(configs))

\* A call of run_import with the configurations of the file
RunImport(configs) ==
    /\ call = None
    /\ nruns < MaxRuns
    /\ nruns' = nruns + 1
    /\ LET r == run_import(db, configs)
       IN /\ db' = r.db
          /\ call' = [fn |-> "run_import", arg |-> configs]
          /\ returned' = Some(r.kind)
    /\ UNCHANGED <<db_calls, tx, run, success_log, collector_vars, store_vars, save_all,
                   search_vars, index_state>>

\* The caller takes the result.
RunImportReturn ==
    /\ call # None /\ call.fn = "run_import"
    /\ call' = None
    /\ returned' = None
    /\ UNCHANGED not_call_vars

NextImport ==
    \/ \E configs \in SeqsUpTo(ImportConfigs, MaxConfigs) \ {<<>>} : RunImport(configs)
    \/ RunImportReturn

\* C28: after run_import, the entries of every page that parses are in the
\* catalog and linked to the pattern of their store, whether or not another
\* page of the store or of another store fails to parse.
C28_BadPageSkipped ==
    (call # None /\ call.fn = "run_import") =>
        \A i \in 1..Len(call.arg) :
            \A j \in 1..Len(call.arg[i].pages) :
                LET page == call.arg[i].pages[j]
                IN \A k \in 1..Len(page.values) :
                      \E r \in EntryRows(page.values[k]), q \in db.pattern :
                          /\ q.slug = call.arg[i].pattern.slug
                          /\ Links(q.id, r.id) # {}


(***************************************************************************)
(* Deserialize for EntryList, EntryHeader and Entry (cdx/src/entry.rs).    *)
(* A page is a JSON array of arrays of strings; a string is a sequence of  *)
(* characters or, for a field name, a word.                                *)
(***************************************************************************)
ShortHeader ==
    <<"urlkey", "timestamp", "original", "mimetype", "statuscode", "digest", "length">>

FullHeader ==
    <<"urlkey", "timestamp", "original", "mimetype", "statuscode", "digest", "redirect",
      "robotflags", "length", "offset", "filename">>

\* The first rows of the pages.
HeaderRows ==
    {ShortHeader, FullHeader, <<>>,
     SubSeq(ShortHeader, 1, 6), ShortHeader \o <<"offset">>,
     [ShortHeader EXCEPT ![2] = "time"], [ShortHeader EXCEPT ![7] = "size"],
     SubSeq(FullHeader, 1, 10), FullHeader \o <<"length">>,
     [FullHeader EXCEPT ![9] = "size"]}

\* The other rows of the pages: the first four fields and the digest are
\* strings that their types deserialize.
ShortRow(status_code, length) ==
    <<"com,test)/", "20150101000000", "https://test.com/", "text/html", status_code,
      "AAAAAAAAAAAAAAAAAAAAAAAAAAAAAAAA", length>>

FullRow(status_code, redirect, length, offset_str) ==
    SubSeq(ShortRow(status_code, redirect), 1, 7)
        \o <<"-", length, offset_str, "a.warc.gz">>

EntryRowsOfPages ==
    {ShortRow(<<"2", "0", "0">>, <<"4", "2">>),
     ShortRow(<<"-">>, <<"7">>),
     ShortRow(<<"2", "0", "0">>, <<"-">>),
     ShortRow(<<"o", "k">>, <<"7">>),
     SubSeq(ShortRow(<<"2", "0", "0">>, <<"7">>), 1, 6),
     FullRow(<<"2", "0", "0">>, <<"-">>, <<"4", "2">>, <<"9">>),
     FullRow(<<"3", "0", "1">>, <<"7">>, <<"4", "2">>, <<"9">>),
     FullRow(<<"2", "0", "0">>, <<"-">>, <<"-">>, <<"9">>),
     SubSeq(FullRow(<<"2", "0", "0">>, <<"-">>, <<"4", "2">>, <<"9">>), 1, 8),
     FullRow(<<"2", "0", "0">>, <<"-">>, <<"4", "2">>, <<"9">>) \o <<"-">>}

CdxPages == {<<header>> \o rows : header \in HeaderRows,
                                  rows \in SeqsUpTo(EntryRowsOfPages, MaxRows)}

DecimalDigits == <<"0", "1", "2", "3", "4", "5", "6", "7", "8", "9">>

\* str::parse for the unsigned integers of a width: None for its Err
RECURSIVE ParseDigits(_, _)
ParseDigits(str, acc) ==
    IF str = <<>> THEN Some(acc)
    ELSE IF \E d \in 1..10 : DecimalDigits[d] = Head(str)
         THEN ParseDigits(Tail(str),
                          10 * acc + (CHOOSE d \in 1..10 : DecimalDigits[d] = Head(str)) - 1)
         ELSE None

\* str::parse::<u16>
ParseU16(str) ==
    IF str = <<>> THEN None
    ELSE LET value == ParseDigits(str, 0)
         IN IF value # None /\ value[1] < 2 ^ 16 THEN value ELSE None

\* str::parse::<u64>: the strings of the pages are too short to exceed 64
\* bits
ParseU64(str) == IF str = <<>> THEN None ELSE ParseDigits(str, 0)

\* EntryHeaderVisitor::visit_seq: Short, Full or None for its Err
deserialize_header(row) ==
    IF Len(row) < 7 \/ SubSeq(row, 1, 6) # SubSeq(ShortHeader, 1, 6) THEN None
    ELSE IF row[7] = "length" THEN (IF Len(row) = 7 THEN Some("Short") ELSE None)
    ELSE IF row[7] = "redirect"
         THEN (IF Len(row) = 11 /\ row = FullHeader THEN Some("Full") ELSE None)
    ELSE None

\* EntryVisitor::visit_seq and the end of the array: the entry, or None for
\* the Err.  A &str element deserializes only from input that lends its
\* strings (serde_json::from_str), not from a reader.
deserialize_entry(row, borrowed) ==
    IF Len(row) < 5 THEN None
    ELSE IF row[5] # <<"-">> /\ ParseU16(row[5]) = None THEN None
    ELSE IF Len(row) < 7 THEN None
    ELSE LET status_code == IF row[5] = <<"-">> THEN None ELSE ParseU16(row[5])
         IN IF Len(row) = 7
            THEN (IF ParseU64(row[7]) = None THEN None
                  ELSE Some([status_code |-> status_code,
                             length |-> ParseU64(row[7])[1],
                             extra_info |-> None]))
            ELSE IF Len(row) < 9 \/ ~borrowed THEN None
            ELSE IF ParseU64(row[9]) = None THEN None
            ELSE IF Len(row) < 10 \/ ParseU64(row[10]) = None THEN None
            ELSE IF Len(row) # 11 THEN None
            ELSE Some([status_code |-> status_code,
                       length |-> ParseU64(row[9])[1],
                       extra_info |-> Some([redirect |-> row[7], robot_flags |-> row[8],
                                            offset |-> ParseU64(row[10])[1],
                                            file_name |-> row[11]])])

\* The entries of the rows, or None at the first row that is not an entry
RECURSIVE deserialize_entries(_, _)
deserialize_entries(rows, borrowed) ==
    IF rows = <<>> THEN Some(<<>>)
    ELSE LET next == deserialize_entry(Head(rows), borrowed)
             rest == deserialize_entries(Tail(rows), borrowed)
         IN IF next = None \/ rest = None THEN None ELSE Some(<<next[1]>> \o rest[1])

\* EntryListVisitor::visit_seq: the header is read, checked and dropped
deserialize_entry_list(page, borrowed) ==
    IF page = <<>> \/ deserialize_header(Head(page)) = None THEN None
    ELSE deserialize_entries(Tail(page), borrowed)

\* serde_json::from_str (borrowed) or serde_json::from_reader of a page
DeserializeEntryList(page, borrowed) ==
    /\ call = None
    /\ call' = [fn |-> "EntryList", arg |-> page, borrowed |-> borrowed]
    /\ returned' = Some(deserialize_entry_list(page, borrowed))
    /\ UNCHANGED not_call_vars

\* The caller takes the result.
EntryListReturn ==
    /\ call # None /\ call.fn = "EntryList"
    /\ call' = None
    /\ returned' = None
    /\ UNCHANGED not_call_vars

NextEntryList ==
    \/ \E page \in CdxPages, borrowed \in BOOLEAN : DeserializeEntryList(page, borrowed)
    \/ EntryListReturn

\* A page was deserialized and accepted.
Accepted == call # None /\ call.fn = "EntryList" /\ returned[1] # None

\* An accepted page starts with the short or the full header.
HeaderExact == Accepted => Head(call.arg) \in {ShortHeader, FullHeader}

\* C29: a page is accepted only when its first row is exactly the short or
\* the full header; under the short header every accepted entry has 7
\* fields and no extra_info, under the full header every accepted entry has
\* 11 fields, with field 6 as its redirect and field 8 as its length.
C29_HeaderDecidesEntryShape ==
    Accepted =>
        /\ Head(call.arg) \in {ShortHeader, FullHeader}
        /\ \A i \in 1..Len(returned[1][1]) :
              LET row == call.arg[i + 1]
                  entry == returned[1][1][i]
              IN /\ Head(call.arg) = ShortHeader =>
                        Len(row) = 7 /\ entry.extra_info = None
                 /\ Head(call.arg) = FullHeader =>
                        /\ Len(row) = 11
                        /\ entry.extra_info # None
                        /\ entry.extra_info[1].redirect = row[7]
                        /\ Some(entry.length) = ParseU64(row[9])


(***************************************************************************)
(* Concurrent callers of ItemStore::save and ItemStore::contains           *)
(* (store/src/items/mod.rs): save_all runs each save in a task of its own. *)
(***************************************************************************)
Writers == 1..NumWriters

\* The digests the writers hand to save.
WriterDigests == {compute_digest(c) : c \in Contents}

\* No save in progress targets the digest.
Untargeted(digest) == \A t \in SaveTasks : save_task[t].pc = "idle" \/ save_task[t].digest # digest

\* A writer calls save with a digest no other writer is working on; its
\* reader delivers all its bytes.
WriterSaveStart(t, digest, reader) ==
    /\ Untargeted(digest)
    /\ SaveStart(t, digest, reader, NoFail)

\* ItemStore::contains, called while the writers run
ContainsCall(digest) ==
    /\ call = None
    /\ call' = [fn |-> "contains", arg |-> digest]
    /\ returned' = Some(contains(digest))
    /\ UNCHANGED not_call_vars

\* The caller takes the result.
ContainsReturn ==
    /\ call # None /\ call.fn = "contains"
    /\ call' = None
    /\ returned' = None
    /\ UNCHANGED not_call_vars

NextWriters ==
    \/ \E t \in SaveTasks, digest \in WriterDigests, reader \in Contents :
          WriterSaveStart(t, digest, reader)
    \/ \E t \in SaveTasks : SaveCreateDirAll(t)
    \/ \E t \in SaveTasks : SaveFileCreate(t)
    \/ \E t \in SaveTasks : SaveCopy(t)
    \/ \E t \in SaveTasks : SaveFinish(t)
    \/ \E t \in SaveTasks : SaveReturn(t)
    \/ \E digest \in WriterDigests : ContainsCall(digest)
    \/ ContainsReturn

\* C21: with concurrent savers that target pairwise distinct digests, and
\* concurrent calls of contains, every save of a digest not yet stored
\* returns Some, and the file of every stored digest decompresses to exactly
\* the input of the writer that stored it.
C21_DistinctDigestWriters ==
    /\ \A t \in SaveTasks :
          Returned(t) /\ ~save_task[t].prior =>
              /\ save_task[t].result.kind = "Some"
              /\ is_file(CanonicalPath(save_task[t].digest))
              /\ ZstdDecode(fs[CanonicalPath(save_task[t].digest)].bytes)
                    = Some(save_task[t].reader)
    /\ \A d \in DOMAIN saved :
          /\ is_file(CanonicalPath(d))
          /\ ZstdDecode(fs[CanonicalPath(d)].bytes) = Some(saved[d])

\* C21 witness: one writer has returned Some for a non-empty input while
\* another writer, which has created its file in the same store, is still
\* writing a different digest.
C21_Witness ==
    \E t, u \in SaveTasks :
        /\ Returned(t) /\ save_task[t].result.kind = "Some" /\ save_task[t].reader # <<>>
        /\ save_task[u].pc \in {"copy", "finish"}
        /\ save_task[u].digest # save_task[t].digest
        /\ exists(save_task[u].path)


(***************************************************************************)
(* Concurrent callers of ItemStore::save on one digest                     *)
(* (store/src/items/mod.rs): save_all spawns one task per item, so an      *)
(* input that lists a digest twice runs two saves of it at once.           *)
(***************************************************************************)
\* A task calls save; another task may be saving the same digest.
SameDigestSaveStart(t, digest, reader) == SaveStart(t, digest, reader, NoFail)

\* ItemStore::contains, called while the saves run.  The call keeps what the
\* file held when path.is_file() was evaluated.
ContainsObserved(digest) ==
    /\ call = None
    /\ call' = [fn |-> "contains", arg |-> digest,
                file |-> IF contains(digest)
                         THEN Some(fs[location(digest)[1]].bytes) ELSE None]
    /\ returned' = Some(contains(digest))
    /\ UNCHANGED not_call_vars

NextSameDigest ==
    \/ \E t \in SaveTasks, digest \in WriterDigests, reader \in Contents :
          SameDigestSaveStart(t, digest, reader)
    \/ \E t \in SaveTasks : SaveCreateDirAll(t)
    \/ \E t \in SaveTasks : SaveFileCreate(t)
    \/ \E t \in SaveTasks : SaveCopy(t)
    \/ \E t \in SaveTasks : SaveFinish(t)
    \/ \E t \in SaveTasks : SaveReturn(t)
    \/ \E digest \in WriterDigests : ContainsObserved(digest)
    \/ ContainsReturn

\* The file holds one whole frame.
CompletelyWritten(bytes) == \E c \in Contents : bytes = ZstdEncode(c)

\* Two saves of one digest have both returned.
BothReturned(t, u) ==
    /\ t # u /\ Returned(t) /\ Returned(u)
    /\ save_task[t].digest = save_task[u].digest

\* No save of the digest is under way.
Settled(digest) ==
    \A t \in SaveTasks :
        save_task[t].digest = digest => save_task[t].pc \in {"idle", "returned"}

\* C37: of two saves of the same digest that ran at once exactly one returns
\* Some and the other None; once they are done the stored file decompresses
\* to the whole input of a save that returned Some; and contains never
\* returns true for a file that is not completely written.
C37_SameDigestSaves ==
    /\ \A t, u \in SaveTasks :
          BothReturned(t, u) =>
              {save_task[t].result.kind, save_task[u].result.kind} = {"Some", "None"}
    /\ \A t \in SaveTasks :
          Returned(t) /\ save_task[t].result.kind = "Some" /\ Settled(save_task[t].digest) =>
              /\ is_file(save_task[t].path)
              /\ ZstdDecode(fs[save_task[t].path].bytes) \in
                    {Some(save_task[u].reader) : u \in
                        {x \in SaveTasks : /\ Returned(x)
                                           /\ save_task[x].digest = save_task[t].digest
                                           /\ save_task[x].result.kind = "Some"}}
    /\ (call # None /\ call.fn = "contains" /\ returned = Some(TRUE)) =>
          CompletelyWritten(call.file[1])


(***************************************************************************)
(* Downloader::download, one GET at a time (downloader/src/lib.rs): each   *)
(* attempt of RetryIf is a download_once that calls itself for the         *)
(* Location of every 302 it meets.                                         *)
(***************************************************************************)
\* The URLs the archive redirects between; the download asks for the first.
RedirectUrls == 1..NumUrls

RequestedUrl == 1

\* The calls of download_once nested in one attempt, counted up to MaxDepth;
\* deeper nestings are not told apart.
Deeper(depth) == Min(depth + 1, MaxDepth)

\* A call of download: RetryIf runs the action for the first time.
ChainStart ==
    /\ call = None
    /\ call' = [fn |-> "download_chain", pc |-> "get", count |-> 1, strategy |-> Strategy,
                url |-> RequestedUrl, depth |-> 0, last |-> None]
    /\ returned' = None
    /\ UNCHANGED not_call_vars

\* download_once: the GET for the current URL and the match on the status.
\* A 302 with a Location that parses makes download_once call itself for
\* that URL; anything else ends the attempt, and the calls that wait push
\* their url_parts on a result that is Ok.
ChainGet(response, redirect_to) ==
    /\ call # None /\ call.fn = "download_chain" /\ call.pc = "get"
    /\ IF response.kind = "found" /\ response.location = "good"
       THEN /\ call' = [call EXCEPT !.url = redirect_to, !.depth = Deeper(@)]
            /\ returned' = returned
       ELSE LET innermost == download_once(<<response>>)[1]
                result == IF innermost.kind = "Ok" THEN OkDownload(call.depth)
                          ELSE innermost
                retry == result.kind = "Err" /\ ShouldRetry(result) /\ call.strategy > 0
            IN /\ call' = [call EXCEPT !.last = Some(result),
                                       !.pc = IF retry THEN "sleeping" ELSE "done",
                                       !.strategy = IF retry THEN @ - 1 ELSE @]
               /\ returned' = IF retry THEN None ELSE Some(DownloadResult(result))
    /\ UNCHANGED not_call_vars

\* RetryIf: the sleep is over, the action runs again (count += 1) from the
\* URL of the download.
ChainWake ==
    /\ call # None /\ call.fn = "download_chain" /\ call.pc = "sleeping"
    /\ call' = [call EXCEPT !.pc = "get", !.count = @ + 1, !.url = RequestedUrl,
                            !.depth = 0]
    /\ UNCHANGED <<returned, not_call_vars>>

\* The caller takes the result.
ChainReturn ==
    /\ call # None /\ call.fn = "download_chain" /\ call.pc = "done"
    /\ call' = None
    /\ returned' = None
    /\ UNCHANGED not_call_vars

NextChain ==
    \/ ChainStart
    \/ \E response \in Responses, redirect_to \in RedirectUrls :
          ChainGet(response, redirect_to)
    \/ ChainWake
    \/ ChainReturn

ChainRunning == call # None /\ call.fn = "download_chain" /\ call.pc # "done"

ChainDone == call # None /\ call.fn = "download_chain" /\ call.pc = "done"

\* C40: every call of download returns, whatever the archive answers: no
\* chain or cycle of 302 responses keeps an attempt following redirects
\* forever.
C40_DownloadTerminates == ChainRunning ~> ChainDone

(***************************************************************************)
(* ItemStore::entries over a store directory that holds paths the store    *)
(* did not write (store/src/items/mod.rs, store/src/items/iter.rs).        *)
(***************************************************************************)
\* Paths outside the layout: a file in the base, a file one level below, a
\* file under a directory named in lower case, a file under a directory of
\* three characters, a file whose name is no digest, a file three levels
\* below.
StrayPaths ==
    LET d == compute_digest(<<>>) \o ZstExt
        AA == <<"A", "A">>
    IN {<<<<"z">>>>,
        <<AA, <<"z">>>>,
        <<<<"a", "a">>, AA, d>>,
        <<AA, <<"A", "A", "A">>, d>>,
        <<AA, AA, <<"z">>>>,
        <<AA, AA, <<"z", "z">>, <<"t">>>>}

\* Something other than the store puts a file into the store directory,
\* with the directories above it.
Misplace(path) ==
    /\ StoreQuiet
    /\ Cardinality(DOMAIN fs \cap StrayPaths) < MaxStray
    /\ path \notin DOMAIN fs
    /\ ~CreateDirAllFails(Parent(path))
    /\ fs' = CreateDirAll(Parent(path)) @@ (path :> FileNode(ZstdEncode(<<>>)))
    /\ UNCHANGED <<not_store_vars, empty_input_decodes>>
    /\ UNCHANGED <<save_task, nsaves, saved, altered, entries_pc, parallelism, files_iter,
                   in_flight, emitted>>

NextLayout ==
    \/ \E t \in SaveTasks, reader \in Contents :
          SaveStart(t, compute_digest(reader), reader, NoFail)
    \/ \E t \in SaveTasks : SaveCreateDirAll(t)
    \/ \E t \in SaveTasks : SaveFileCreate(t)
    \/ \E t \in SaveTasks : SaveCopy(t)
    \/ \E t \in SaveTasks : SaveFinish(t)
    \/ \E t \in SaveTasks : SaveReturn(t)
    \/ \E path \in StrayPaths : Misplace(path)
    \/ \E n \in 1..MaxParallelism : EntriesStart(n)
    \/ EntriesSpawn
    \/ \E path \in in_flight : EntriesComplete(path)
    \/ EntriesEnd
    \/ EntriesDrop

\* The files below the base, at any depth.
AllFiles == {q \in DOMAIN fs : fs[q].kind = "file"}

\* The path is outside the layout base/XX/YY/<digest>.zst.
ViolatesLayout(q) ==
    \/ Len(q) # 3
    \/ ~(Len(q[1]) = 2 /\ \A i \in 1..Len(q[1]) : is_valid_char(q[1][i]))
    \/ ~(Len(q[2]) = 2 /\ \A i \in 1..Len(q[2]) : is_valid_char(q[2][i]))
    \/ ~(Len(q[3]) = 36 /\ IsBase32Sha1(SubSeq(q[3], 1, 32))
            /\ SubSeq(q[3], 33, 36) = <<".", "z", "s", "t">>)

\* C22: when the stream of ItemStore::entries has ended, every file outside
\* the layout has been reported by exactly one Unexpected item with its
\* path, and the stream has yielded one item for every file.
C22_StrayPathsUnexpected ==
    entries_pc = "done" =>
        /\ \A q \in AllFiles : ViolatesLayout(q) => OneItem(q, "Unexpected")
        /\ \A q \in AllFiles : Cardinality(ItemsFor(q)) = 1


(***************************************************************************)
(* The ids of the public API (u64) and of the catalog (i64):               *)
(* manager/src/db/entry.rs, manager/src/db/pattern.rs.  A u64 is written   *)
(* as its distance from 0 or from u64::MAX, an i64 is an integer.          *)
(***************************************************************************)
FromZero(n) == [from |-> "zero", off |-> n]
FromMax(n) == [from |-> "max", off |-> n]

\* The ids handed to the catalog: 1, 2, .. and u64::MAX, u64::MAX - 1, ..
U64Ids == {FromZero(n) : n \in 1..MaxId} \cup {FromMax(n) : n \in 0..(MaxId - 1)}

\* value > i64::MAX, for the ids above
AboveI64Max(id) == id.from = "max"

\* `id as i64`: the same 64 bits read as two's complement, so that
\* u64::MAX - n becomes -(n + 1)
as_i64(id) == IF id.from = "zero" THEN id.off ELSE 0 - (id.off + 1)

\* `id as u64`
as_u64(id) == IF id >= 0 THEN FromZero(id) ELSE FromMax(0 - id - 1)

\* Whether the tables are declared with REFERENCES clauses (and the
\* connection enforces them) is the schema's choice.
ForeignKeys == BOOLEAN

IdOk(id) == [kind |-> "Ok", id |-> id]
IdErr(error) == [kind |-> "Err", error |-> error]

Refers(table, id) == \E r \in table : r.id = id

\* The entry handed to insert_entry.
IdEntry == CHOOSE e \in CdxEntries : e.status_code = Some(200)

\* db::entry::insert_entry with a surt id of the caller
InsertEntryId(surt_id, foreign_keys) ==
    /\ call = None
    /\ Cardinality(db.entry) < MaxIdRows
    /\ LET id == as_i64(surt_id)
       IN /\ call' = [fn |-> "insert_entry", ids |-> {surt_id}, db |-> db]
          /\ IF foreign_keys /\ ~Refers(db.surt, id)
             THEN db' = db /\ returned' = Some(IdErr("Database"))
             ELSE LET r == insert_entry(db, IdEntry, id)
                  IN db' = r.db /\ returned' = Some(IdOk(as_u64(r.id)))
    /\ UNCHANGED <<db_calls, tx, run, nruns, success_log, collector_vars, store_vars,
                   save_all, search_vars, index_state>>

\* db::entry::insert_entry_success with an entry id of the caller
InsertEntrySuccessId(entry_id, digest, foreign_keys) ==
    /\ call = None
    /\ Cardinality(db.entry_success) < MaxIdRows
    /\ LET id == as_i64(entry_id)
       IN /\ call' = [fn |-> "insert_entry_success", ids |-> {entry_id}, db |-> db]
          /\ IF foreign_keys /\ ~Refers(db.entry, id)
             THEN db' = db /\ returned' = Some(IdErr("Database"))
             ELSE LET r == insert_entry_success(db, id, digest, TRUE, 1)
                  IN db' = r.db /\ returned' = Some(IdOk(as_u64(r.id)))
    /\ UNCHANGED <<db_calls, tx, run, nruns, success_log, collector_vars, store_vars,
                   save_all, search_vars, index_state>>

\* db::pattern::insert_pattern_entry with ids of the caller
InsertPatternEntryId(pattern_id, entry_id, foreign_keys) ==
    /\ call = None
    /\ Cardinality(db.pattern_entry) < MaxIdRows
    /\ LET p == as_i64(pattern_id)
           e == as_i64(entry_id)
       IN /\ call' = [fn |-> "insert_pattern_entry", ids |-> {pattern_id, entry_id},
                      db |-> db]
          /\ IF foreign_keys /\ ~(Refers(db.pattern, p) /\ Refers(db.entry, e))
             THEN db' = db /\ returned' = Some(IdErr("Database"))
             ELSE /\ db' = insert_pattern_entry(db, p, e)
                  /\ returned' = Some(IdOk(FromZero(0)))
    /\ UNCHANGED <<db_calls, tx, run, nruns, success_log, collector_vars, store_vars,
                   save_all, search_vars, index_state>>

\* db::surt::insert and db::pattern::insert: the rows the ids refer to
InsertSurtPattern(key, pattern) ==
    /\ call = None
    /\ Cardinality(db.surt) < MaxIdRows
    /\ db' = pattern_insert(surt_insert(db, key).db, pattern).db
    /\ UNCHANGED <<db_calls, tx, run, nruns, success_log, collector_vars, store_vars,
                   save_all, search_vars, call_vars, index_state>>

\* The caller takes the result.
IdReturn ==
    /\ call # None
    /\ call.fn \in {"insert_entry", "insert_entry_success", "insert_pattern_entry"}
    /\ call' = None
    /\ returned' = None
    /\ UNCHANGED not_call_vars

NextIds ==
    \/ \E surt_id \in U64Ids, foreign_keys \in ForeignKeys :
          InsertEntryId(surt_id, foreign_keys)
    \/ \E entry_id \in U64Ids, digest \in DbDigests, foreign_keys \in ForeignKeys :
          InsertEntrySuccessId(entry_id, digest, foreign_keys)
    \/ \E pattern_id \in U64Ids, entry_id \in U64Ids, foreign_keys \in ForeignKeys :
          InsertPatternEntryId(pattern_id, entry_id, foreign_keys)
    \/ \E key \in SurtKeys, pattern \in Patterns : InsertSurtPattern(key, pattern)
    \/ IdReturn

\* The ids the rows of the catalog hold.
StoredIds(d) ==
    {r.id : r \in d.surt \cup d.entry \cup d.snapshot \cup d.entry_success \cup d.pattern}
        \cup {r.surt_id : r \in d.entry}
        \cup {r.entry_id : r \in d.entry_success \cup d.pattern_entry}
        \cup {r.snapshot_id : r \in d.entry_success}
        \cup {r.pattern_id : r \in d.pattern_entry}

IdCall ==
    /\ call # None
    /\ call.fn \in {"insert_entry", "insert_entry_success", "insert_pattern_entry"}

\* C31: a call of insert_entry, insert_entry_success or insert_pattern_entry
\* with an id above i64::MAX returns the out-of-range error and leaves the
\* catalog as it was; no row holds a negative id, and no returned id is
\* above i64::MAX.
C31_IdConversionsChecked ==
    /\ IdCall /\ (\E id \in call.ids : AboveI64Max(id)) =>
          /\ returned[1] = IdErr("OutOfRange")
          /\ db = call.db
    /\ \A id \in StoredIds(db) : id >= 0
    /\ IdCall /\ returned[1].kind = "Ok" => ~AboveI64Max(returned[1].id)


(***************************************************************************)
(* Surt (core/src/surt.rs): from_url, Display, FromStr.  A string is the   *)
(* sequence of its characters; "U+00E9" is the one character e-acute.      *)
(***************************************************************************)
\* str::to_lowercase, on the characters that occur
LowerChar(c) ==
    CASE c = "A" -> "a" [] c = "B" -> "b" [] c = "C" -> "c" [] OTHER -> c

to_lowercase(str) == [i \in 1..Len(str) |-> LowerChar(str[i])]

\* char::is_ascii_alphanumeric, on the characters that occur
is_ascii_alphanumeric(c) == c \in {"a", "b", "c", "x", "A", "B", "C", "1", "3", "9"}

\* str::split
RECURSIVE Split(_, _)
Split(str, sep) ==
    IF \A i \in 1..Len(str) : str[i] # sep THEN <<str>>
    ELSE LET i == CHOOSE k \in 1..Len(str) : str[k] = sep /\ \A j \in 1..(k - 1) : str[j] # sep
         IN <<SubSeq(str, 1, i - 1)>> \o Split(SubSeq(str, i + 1, Len(str)), sep)

\* [String]::join
RECURSIVE Join(_, _)
Join(parts, sep) ==
    IF parts = <<>> THEN <<>>
    ELSE IF Len(parts) = 1 THEN parts[1]
    ELSE parts[1] \o <<sep>> \o Join(Tail(parts), sep)

Reverse(seq) == [i \in 1..Len(seq) |-> seq[Len(seq) + 1 - i]]

\* The URLs handed to from_url, as the parts the URL syntax gives them:
\* scheme://host[:port]path.  The hosts have characters the url crate
\* accepts in a domain; the paths start with "/".
HostLabels == {<<"a">>, <<"B">>, <<"a", "_">>, <<"a", ",", "x">>, <<"x", "-", "1">>}

UrlInputs ==
    [scheme : {"https", "ftp"},
     host : HostLabels \cup {l \o <<".">> \o m : l \in HostLabels, m \in {<<"a">>, <<"B">>}},
     port : {None, Some(8080)},
     path : {<<"/">>, <<"/", "B">>, <<"/", ")">>, <<"/", "U+00E9">>}]

\* The url crate writes a character of the path outside ASCII as the
\* percent-encoded bytes of its UTF-8 form, in upper-case hexadecimal.
PercentEncode(c) == IF c = "U+00E9" THEN <<"%", "C", "3", "%", "A", "9">> ELSE <<c>>

\* input.to_lowercase().parse::<url::Url>()
UrlParse(input) ==
    [scheme |-> input.scheme, domain |-> to_lowercase(input.host), port |-> input.port,
     path |-> ConcatAll([i \in 1..Len(input.path) |->
                            PercentEncode(LowerChar(input.path[i]))])]

SurtOk(domain, path) == [kind |-> "Ok", domain |-> domain, path |-> path]
SurtErr(error) == [kind |-> "Err", error |-> error]

\* Surt::from_url
from_url(input) ==
    LET url == UrlParse(input)
    IN IF url.scheme \in {"http", "https"} /\ url.port = None
       THEN SurtOk(Reverse(Split(url.domain, ".")), url.path)
       ELSE SurtErr("UnexpectedUrl")

\* Display for Surt
SurtDisplay(surt) == Join(surt.domain, ",") \o <<")">> \o surt.path

\* FromStr for Surt; a slice that starts after the end of the string panics
from_str(str) ==
    IF to_lowercase(str) # str THEN SurtErr("InvalidSurt")
    ELSE LET domain == Split(str, ")")[1]
             domain_parts == Split(domain, ",")
         IN IF \E i \in 1..Len(domain_parts) : \E j \in 1..Len(domain_parts[i]) :
                   /\ ~is_ascii_alphanumeric(domain_parts[i][j])
                   /\ domain_parts[i][j] # "-"
            THEN SurtErr("InvalidDomainPart")
            ELSE IF Len(domain) + 1 > Len(str) THEN [kind |-> "panic"]
            ELSE LET path == SubSeq(str, Len(domain) + 2, Len(str))
                 IN IF path = <<>> \/ path[1] # "/" THEN SurtErr("InvalidSurt")
                    ELSE SurtOk(domain_parts, path)

\* The strings handed to str::parse::<Surt>.
SurtStrings == SeqsUpTo({"a", "B", "1", ",", ")", "/", "-", "_"}, MaxSurtLen)

\* A call of Surt::from_url
SurtFromUrl(input) ==
    /\ call = None
    /\ call' = [fn |-> "from_url", arg |-> input]
    /\ returned' = Some(from_url(input))
    /\ UNCHANGED not_call_vars

\* A call of str::parse::<Surt>
SurtFromStr(str) ==
    /\ call = None
    /\ call' = [fn |-> "from_str", arg |-> str]
    /\ returned' = Some(from_str(str))
    /\ UNCHANGED not_call_vars

\* The caller takes the result.
SurtReturn ==
    /\ call # None /\ call.fn \in {"from_url", "from_str"}
    /\ call' = None
    /\ returned' = None
    /\ UNCHANGED not_call_vars

NextSurt ==
    \/ \E input \in UrlInputs : SurtFromUrl(input)
    \/ \E str \in SurtStrings : SurtFromStr(str)
    \/ SurtReturn

\* [a-z0-9-], on the characters that occur
IsDomainChar(c) == c \in {"a", "b", "c", "x", "1", "3", "9", "-"}

\* A Surt was produced by the call.
Produced(fn) == call # None /\ call.fn = fn /\ returned[1].kind = "Ok"

SurtOf(result) == [domain |-> result.domain, path |-> result.path]

\* The invariants of a Surt and its round trip through its printed form.
WellFormed(result) ==
    /\ \A i \in 1..Len(result.domain) : \A j \in 1..Len(result.domain[i]) :
          IsDomainChar(result.domain[i][j])
    /\ result.path # <<>> /\ result.path[1] = "/"
    /\ from_str(SurtDisplay(SurtOf(result))) = result

\* Every parsed Surt is well formed and prints as the string it came from.
ParsedWellFormed ==
    Produced("from_str") =>
        /\ WellFormed(returned[1])
        /\ SurtDisplay(SurtOf(returned[1])) = call.arg

\* C32: every Surt produced by from_url or by parsing has only [a-z0-9-] in
\* its domain segments and a path that starts with "/", and parsing its
\* printed form gives the same value; a string that parses prints as itself.
C32_SurtRoundTrip ==
    /\ Produced("from_url") => WellFormed(returned[1])
    /\ Produced("from_str") =>
          /\ WellFormed(returned[1])
          /\ SurtDisplay(SurtOf(returned[1])) = call.arg


(***************************************************************************)
(* Calls of push and push_or_update on one TopNComputer                    *)
(* (collector/top_computer.rs), each with the computer it found.           *)
(***************************************************************************)
\* A TopNComputer for every top_n from 0.
InitPush ==
    /\ limit \in 0..MaxLimit
    /\ offset \in 0..MaxOffset
    /\ collector_pc = "top_n"
    /\ segment_ord = 0
    /\ top_n_computer = TopNComputerNew(limit + offset)
    /\ seg_all = EmptyMap
    /\ ndocs = 0
    /\ child_fruits = <<>>
    /\ merged = [top_n |-> <<>>, all |-> EmptyMap]
    /\ hits = <<>>

\* One call of TopNComputer::push
PushRecorded(feature, doc) ==
    /\ collector_pc = "top_n"
    /\ ndocs < MaxPushes
    /\ top_n_computer' \in Push(top_n_computer, feature, doc)
    /\ ndocs' = ndocs + 1
    /\ call' = [fn |-> "push", feature |-> feature, doc |-> doc, before |-> top_n_computer]
    /\ UNCHANGED <<limit, offset, collector_pc, segment_ord, seg_all, child_fruits,
                   merged, hits>>
    /\ UNCHANGED <<store_vars, db_vars, tx_vars, save_all, search_vars, returned,
                   index_state>>

\* One call of TopNComputer::push_or_update
PushOrUpdateRecorded(feature, doc) ==
    /\ collector_pc = "top_n"
    /\ ndocs < MaxPushes
    /\ top_n_computer' \in PushOrUpdate(top_n_computer, feature, doc)
    /\ ndocs' = ndocs + 1
    /\ call' = [fn |-> "push_or_update", feature |-> feature, doc |-> doc,
                before |-> top_n_computer]
    /\ UNCHANGED <<limit, offset, collector_pc, segment_ord, seg_all, child_fruits,
                   merged, hits>>
    /\ UNCHANGED <<store_vars, db_vars, tx_vars, save_all, search_vars, returned,
                   index_state>>

NextPush ==
    \/ \E feature \in Scores, doc \in SurtIds : PushRecorded(feature, doc)
    \/ \E feature \in Scores, doc \in SurtIds : PushOrUpdateRecorded(feature, doc)

\* The last call was push_or_update with a feature not below the threshold
\* in force when it was made.
PushOrUpdateCalled ==
    /\ call # None /\ call.fn = "push_or_update"
    /\ ~BelowThreshold(call.before, call.feature)

\* The places of the doc in a buffer.
PlacesOf(buffer, doc) == {i \in 1..Len(buffer) : buffer[i].doc = doc}

\* C33: after push_or_update(f, d) with f not below the threshold in force
\* at the call: when d was not in the buffer, d is in the buffer with
\* feature f, also when the buffer was full and had to be truncated; when d
\* was in the buffer, its feature is max(old, f) and nothing else changed.
C33_PushedDocIsKept ==
    PushOrUpdateCalled =>
        LET was == PlacesOf(call.before.buffer, call.doc)
        IN IF was = {}
           THEN \E i \in PlacesOf(top_n_computer.buffer, call.doc) :
                   top_n_computer.buffer[i].feature = call.feature
           ELSE \E i \in was :
                   top_n_computer =
                       [call.before EXCEPT !.buffer[i].feature = Max(@, call.feature)]

\* The call found the buffer full and truncated it.
Truncated ==
    /\ call # None /\ call.fn \in {"push", "push_or_update"}
    /\ ~BelowThreshold(call.before, call.feature)
    /\ Len(call.before.buffer) = call.before.capacity
    /\ call.fn = "push_or_update" => PlacesOf(call.before.buffer, call.doc) = {}

\* C39: the buffer of a TopNComputer created with top_n = N never holds more
\* than 2 * max(N, 1) entries, so that push finds a free slot to write to,
\* and a truncation leaves fewer entries than it found.
C39_BufferWithinCapacity ==
    collector_pc = "top_n" =>
        /\ top_n_computer.top_n = limit + offset
        /\ Len(top_n_computer.buffer) <= 2 * Max(limit + offset, 1)
        /\ Truncated => Len(top_n_computer.buffer) - 1 < Len(call.before.buffer)

\* C39 witness: a call found the buffer of a computer with top_n = 0 full,
\* truncated it and pushed its document.
C39_Witness ==
    /\ collector_pc = "top_n"
    /\ limit + offset = 0
    /\ Truncated
    /\ top_n_computer.threshold # None
    /\ Len(top_n_computer.buffer) = 1


(***************************************************************************)
(* search (manager/src/search.rs) with the ranked hits of Index::search:   *)
(* SearchResults.hits is a vector of (surt_id, hits) in rank order, every  *)
(* hit with its score.                                                     *)
(***************************************************************************)
\* The hit of a matching document; `order` lists the matching documents by
\* descending score.
SearchHit(order, i) ==
    [score |-> Len(order) + 1 - i, snapshot_id |-> order[i].snapshot_id,
     pattern_slug |-> order[i].pattern, surt_id |-> order[i].surt_id,
     timestamp |-> order[i].timestamp]

\* SearchResults.hits: the SURTs by their best score, each with its hits
RECURSIVE RankedHits(_, _, _)
RankedHits(order, i, seen) ==
    IF i > Len(order) THEN <<>>
    ELSE IF order[i].surt_id \in seen THEN RankedHits(order, i + 1, seen)
    ELSE LET own == {j \in 1..Len(order) : order[j].surt_id = order[i].surt_id}
             nth(k) == CHOOSE j \in own : Cardinality({l \in own : l < j}) = k - 1
         IN <<[surt_id |-> order[i].surt_id,
               hits |-> [k \in 1..Cardinality(own) |-> SearchHit(order, nth(k))]]>>
                \o RankedHits(order, i + 1, seen \cup {order[i].surt_id})

\* search: the loop over results.hits that fills snapshot_ids and
\* snapshot_map; HashMap::insert replaces the value of a present key
FlatHits(ranked) == ConcatAll([i \in 1..Len(ranked) |-> ranked[i].hits])

SnapshotMap(flat) ==
    [id \in {flat[i].snapshot_id : i \in 1..Len(flat)} |->
        flat[CHOOSE i \in 1..Len(flat) :
                /\ flat[i].snapshot_id = id
                /\ \A j \in 1..Len(flat) : flat[j].snapshot_id = id => j <= i]]

\* search: the loop over the rows of one group
RECURSIVE InsertRankedHits(_, _, _)
InsertRankedHits(surt_results, group, snapshot_map) ==
    IF group = <<>> THEN surt_results
    ELSE LET row == Head(group)
             hit == snapshot_map[row.snapshot_id]
         IN InsertRankedHits(
                IndexMapInsert(surt_results, row.timestamp,
                    Some([score |-> hit.score, pattern_slug |-> hit.pattern_slug,
                          url |-> [url |-> row.url, timestamp |-> row.timestamp]])),
                Tail(group), snapshot_map)

\* search: the loop over the groups
RECURSIVE AssembleRanked(_, _, _, _)
AssembleRanked(surts, groups, surt_entries, snapshot_map) ==
    IF groups = <<>> THEN [status |-> "ok", surts |-> surts]
    ELSE LET g == Head(groups)
         IN IF g.surt.id \notin DOMAIN surt_entries
            THEN [status |-> "MissingSurtTimestamps", surts |-> <<>>]
            ELSE IF \E i \in 1..Len(g.group) : g.group[i].snapshot_id \notin DOMAIN snapshot_map
            THEN [status |-> "MissingSnapshot", surts |-> <<>>]
            ELSE AssembleRanked(
                    IndexMapInsert(surts, g.surt,
                        InsertRankedHits(CollectTimeline(surt_entries[g.surt.id]),
                                         g.group, snapshot_map)),
                    Tail(groups), surt_entries, snapshot_map)

\* search (manager/src/search.rs)
RankedSearch(query, content) ==
    /\ search_result = None
    /\ index_docs # {}
    /\ \E order \in Orders({doc \in index_docs : Matches(query, content, doc)}) :
          LET ranked == RankedHits(order, 1, {})
              flat == FlatHits(ranked)
              snapshot_ids == {flat[i].snapshot_id : i \in 1..Len(flat)}
          IN \E result \in get_search_result(db, query.date_range, snapshot_ids) :
                LET out == AssembleRanked(<<>>, GroupBySurt(result.snapshots),
                                          result.surt_entries, SnapshotMap(flat))
                IN search_result' = Some([query |-> query, matched |-> snapshot_ids,
                                          hits |-> ranked, status |-> out.status,
                                          surts |-> out.surts])
    /\ UNCHANGED <<index_docs, not_search_vars>>

NextRankedSearch ==
    \/ \E config \in CaptureConfigs : ImportCdxStore(config)
    \/ \E entry_id \in 1..MaxCaptures, digest \in DbDigests :
          DownloaderSuccess(entry_id, digest)
    \/ Index("text/html")
    \/ \E query \in Queries, content \in SUBSET index_docs : RankedSearch(query, content)
    \/ SearchResultDrop

\* A search has returned its SearchResult.
Searched == search_result # None /\ "hits" \in DOMAIN search_result[1]

SearchedOk == Searched /\ search_result[1].status = "ok"

\* C34: the SURTs of the SearchResult come in the order of the ranked hits
\* of the index search, whatever the order of the catalog's snapshot rows.
C34_SurtsInRankOrder ==
    SearchedOk =>
        LET r == search_result[1]
        IN /\ Len(r.surts) = Len(r.hits)
           /\ \A i \in 1..Len(r.surts) : r.surts[i].key.id = r.hits[i].surt_id

\* The timeline of a SURT in a SearchResult, as a set of pairs.
Timeline(r, surt_id) ==
    UNION {{<<r.surts[i].value[j].key, r.surts[i].value[j].value>> :
                j \in 1..Len(r.surts[i].value)} :
           i \in {k \in 1..Len(r.surts) : r.surts[k].key.id = surt_id}}

\* C35: every hit of the index search is in the SearchResult: the search
\* succeeds, and the timeline of the hit's SURT has Some(Hit) with the
\* hit's score at the timestamp of its capture.
C35_NoHitLost ==
    Searched =>
        LET r == search_result[1]
        IN \A i \in 1..Len(r.hits) : \A j \in 1..Len(r.hits[i].hits) :
              LET hit == r.hits[i].hits[j]
              IN /\ r.status = "ok"
                 /\ \E p \in Timeline(r, hit.surt_id) :
                       /\ p[1] = hit.timestamp
                       /\ p[2] # None
                       /\ p[2][1].score = hit.score

\* C36: the SearchResult has only SURTs the index search returned, and
\* Some(Hit) only at the capture of a hit the index returned for that SURT;
\* a snapshot shared with other SURTs or timestamps adds nothing and does
\* not make the search fail with MissingSurtTimestamps.
C36_OnlyIndexHits ==
    Searched =>
        LET r == search_result[1]
            flat == FlatHits(r.hits)
        IN /\ r.status # "MissingSurtTimestamps"
           /\ \A i \in 1..Len(r.surts) :
                 /\ \E k \in 1..Len(r.hits) : r.hits[k].surt_id = r.surts[i].key.id
                 /\ \A j \in 1..Len(r.surts[i].value) :
                       r.surts[i].value[j].value # None =>
                           \E k \in 1..Len(flat) :
                               /\ flat[k].surt_id = r.surts[i].key.id
                               /\ flat[k].timestamp = r.surts[i].value[j].key


(***************************************************************************)
(* Specifications.  Each one runs one part and leaves the others at rest.  *)
(***************************************************************************)
\* No search has been started.
CollectorAtRest ==
    /\ limit = 0
    /\ offset = 0
    /\ collector_pc = "new"
    /\ segment_ord = 0
    /\ top_n_computer = NoComputer
    /\ seg_all = EmptyMap
    /\ ndocs = 0
    /\ child_fruits = <<>>
    /\ merged = [top_n |-> <<>>, all |-> EmptyMap]
    /\ hits = <<>>

\* The item store before any call, with a decoder that takes an empty file
\* for an empty stream.
StoreAtRest == InitStore /\ empty_input_decodes /\ save_all = NoStream

\* A search over the index.
SearchInit == InitCollector /\ StoreAtRest /\ InitDb

SpecCollector == SearchInit /\ [][NextCollector]_vars

\* Saves into, alterations of and validation of an item store.
ItemsInit == CollectorAtRest /\ InitStore /\ InitDb /\ save_all = NoStream

\* Calls of push_or_update on one TopNComputer.
TopNInit == InitTopN /\ StoreAtRest /\ InitDb

SpecTopN == TopNInit /\ [][NextTopN]_vars

SpecStore == ItemsInit /\ [][NextStore]_vars

\* Calls of the catalog's insert functions.
CatalogInit == CollectorAtRest /\ StoreAtRest /\ InitDb

SpecDb == CatalogInit /\ [][NextDb]_vars

\* Calls on the connection, statement by statement.
SpecTx == CatalogInit /\ [][NextTx]_vars

\* A save_all stream and its tasks.
SpecSaveAll == CatalogInit /\ [][NextSaveAll]_vars /\ SaveAllFairness

\* Runs of find_local_snapshots and import_invalid_digests.
SpecSnapshots == CatalogInit /\ [][NextSnapshots]_vars

\* Calls of Digest::from_str and to_string.
SpecDigest == CatalogInit /\ [][NextDigest]_vars

\* Catalogs and calls of list_missing_snapshots.
SpecListMissing == CatalogInit /\ [][NextListMissing]_vars

\* Calls of Downloader::download.
SpecDownload == CatalogInit /\ [][NextDownload]_vars

\* One download, GET by GET.  The runtime keeps polling the future and every
\* GET ends, with a response or with the client's timeout, so a step that
\* can be taken is taken.
SpecRedirects == CatalogInit /\ [][NextChain]_vars /\ WF_vars(NextChain)

\* The operations of an indexer Index.
SpecIndex == CatalogInit /\ [][NextIndex]_vars

\* A store directory that exists and is empty, and the callers of save.
WritersInit ==
    /\ CollectorAtRest /\ InitDb /\ save_all = NoStream
    /\ fs = (Root :> DirNode)
    /\ empty_input_decodes \in BOOLEAN
    /\ save_task = [t \in Writers |-> IdleTask]
    /\ nsaves = 0
    /\ saved = EmptyMap
    /\ altered = {}
    /\ entries_pc = "idle"
    /\ parallelism = 1
    /\ files_iter = <<>>
    /\ in_flight = {}
    /\ emitted = <<>>

\* Concurrent calls of save and contains.
SpecWriters == WritersInit /\ [][NextWriters]_vars

\* Concurrent calls of save on one digest, and of contains.
SpecSameDigest == WritersInit /\ [][NextSameDigest]_vars

\* Saves, files put into the store directory from outside, and validations.
SpecLayout == ItemsInit /\ [][NextLayout]_vars

\* Catalog calls with ids of the caller.
SpecIds == CatalogInit /\ [][NextIds]_vars

\* Constructions of Surt values.
SpecSurt == CatalogInit /\ [][NextSurt]_vars

\* Calls of push and push_or_update on one TopNComputer.
PushInit == InitPush /\ StoreAtRest /\ InitDb

SpecPush == PushInit /\ [][NextPush]_vars

\* Imports, downloads, indexing runs and manager searches over ranked hits.
SpecRankedSearch == CatalogInit /\ [][NextRankedSearch]_vars

\* Deserializations of CDX pages.
SpecEntryList == CatalogInit /\ [][NextEntryList]_vars

\* Calls of run_import.
SpecImport == CatalogInit /\ [][NextImport]_vars

\* Imports, downloads, indexing runs and manager searches.
SpecManagerSearch == CatalogInit /\ [][NextManagerSearch]_vars

=============================================================================
